---- MODULE Spec2Model ----
(***************************************************************************)
(* Bermuda BLE trilateration: the BermudaDataUpdateCoordinator of          *)
(* custom_components/bermuda/coordinator.py as a state machine.            *)
(*                                                                         *)
(* The coordinator object is the record `coord` (one field per attribute   *)
(* of `self` that the update cycle reads or writes).  Every method is an   *)
(* operator from a coordinator record to a coordinator record; a raised    *)
(* exception is the field `exc` of the result, and every caller stops at   *)
(* the first raised exception the way Python unwinds.                      *)
(*                                                                         *)
(* Python values: None is the empty tuple and a present value v is <<v>>,  *)
(* so that an optional attribute can be compared with None whatever its    *)
(* type is.  A dict that the code iterates in insertion order and whose    *)
(* order decides a result (device.scanners, beacon_sources) is a sequence. *)
(***************************************************************************)
EXTENDS Integers, Sequences, FiniteSets, TLC

VARIABLES
    coord,      \* the BermudaDataUpdateCoordinator instance (self)
    now,        \* MONOTONIC_TIME()
    adverts,    \* the bluetooth integration's advertisement cache
    pb_state,   \* state attribute current_address of the Private BLE tracker entity
    tasks,      \* the event loop's _async_update_data coroutines, each at its next step
    running,    \* the task the event loop is executing (its index in tasks), 0 for none
    call        \* a function called on its own: [fn, args, ret], None for none

vars == <<coord, now, adverts, pb_state, tasks, running, call>>

(***************************************************************************)
(* Bounds of the model                                                     *)
(***************************************************************************)
\* the clock starts at StartTime (the host's uptime when the integration is
\* set up) and runs for TimeSpan ticks
StartTime == 3
TimeSpan == 1
MaxTime == StartTime + TimeSpan
\* at most MaxTasks update coroutines are queued on the event loop
MaxTasks == 2
\* a beacon_sources list is followed up to this length
MaxSources == 3
\* trilaterate is called on its own with at most MaxPositions positions
MaxPositions == 3
\* the distance model's functions are called on their own MaxCalls times
MaxCalls == 2

(***************************************************************************)
(* Python's None and optional values                                       *)
(***************************************************************************)
None == <<>>
Some(v) == <<v>>
Val(o) == o[1]

(***************************************************************************)
(* const.py (not part of the sources at hand; imported at                  *)
(* coordinator.py:40-77).  Times are in clock ticks of the model.          *)
(***************************************************************************)
UPDATE_INTERVAL == 1
HIST_KEEP_COUNT == 2
PRUNE_MAX_COUNT == 3
PRUNE_TIME_INTERVAL == 1
PRUNE_TIME_DEFAULT == 2
PRUNE_TIME_IRK == 1
BDADDR_TYPE_OTHER == "bd_addr_other"
BDADDR_TYPE_PRIVATE_RESOLVABLE == "bd_addr_private_resolvable"
BDADDR_TYPE_NOT_MAC48 == "bd_addr_not_mac48"
BEACON_IBEACON_SOURCE == "beacon_ibeacon_source"
BEACON_PRIVATE_BLE_SOURCE == "beacon_private_ble_source"

(***************************************************************************)
(* The addresses of the model                                              *)
(***************************************************************************)
\* advertising devices with a public / static MAC address
StaticMacs == {"m1", "m2"}
\* advertising devices with a resolvable private (rotating) MAC address
PrivateMacs == {"r1", "r2"}
Macs == StaticMacs \cup PrivateMacs
\* bluetooth proxies
Scanners == {"s1", "s2"}
\* the further proxies of a larger installation
FarScanners == {"s3", "s4"}
\* iBeacon unique ids (uuid_major_minor) and identity resolving keys
BeaconIds == {"b1"}
Irks == {"k1"}
Addrs == Macs \cup Scanners \cup FarScanners \cup BeaconIds \cup Irks

\* sorted() on addresses: the lexicographic rank of each address string
AddrRank(a) ==
    CASE a = "b1" -> 1 [] a = "k1" -> 2 [] a = "m1" -> 3 [] a = "m2" -> 4
      [] a = "r1" -> 5 [] a = "r2" -> 6 [] a = "s1" -> 7 [] a = "s2" -> 8
      [] a = "s3" -> 9 [] a = "s4" -> 10
      [] OTHER -> 0

(***************************************************************************)
(* BermudaDevice (bermuda_device.py is not part of the sources at hand:    *)
(* the record holds the attributes coordinator.py reads and writes, with   *)
(* the initial values of section 3 of the specification)                   *)
(***************************************************************************)
\* the address-type tag a new device gets from the shape of its address
AddressType(a) ==
    IF a \in PrivateMacs THEN BDADDR_TYPE_PRIVATE_RESOLVABLE
    ELSE IF a \in StaticMacs \cup Scanners \cup FarScanners THEN BDADDR_TYPE_OTHER
    ELSE BDADDR_TYPE_NOT_MAC48

BermudaDevice(a, options) ==
    [ address         |-> a,
      address_type    |-> AddressType(a),
      name            |-> None,
      local_name      |-> None,
      prefname        |-> None,
      manufacturer    |-> None,
      connectable     |-> FALSE,
      zone            |-> None,
      is_scanner      |-> FALSE,
      create_sensor   |-> FALSE,
      create_sensor_done  |-> FALSE,
      create_tracker_done |-> FALSE,
      last_seen       |-> 0,
      scanners        |-> <<>>,    \* the device's own dict of scanner contacts
      scanners_ref    |-> a,       \* whose dict device.scanners refers to
      \* None: the device has no attribute position
      position        |-> IF a \in DOMAIN options.positions
                          THEN Some(options.positions[a]) ELSE None,
      trilaterated_position |-> None,
      area_id         |-> None,
      area_name       |-> None,
      area_distance   |-> None,
      area_rssi       |-> None,
      area_scanner    |-> None,
      beacon_type     |-> {},
      beacon_unique_id |-> None,
      beacon_uuid     |-> None,
      beacon_major    |-> None,
      beacon_minor    |-> None,
      beacon_power    |-> None,
      beacon_sources  |-> <<>> ]

\* f with key k bound to v (a dict assignment)
Put(f, k, v) == [x \in (DOMAIN f) \cup {k} |-> IF x = k THEN v ELSE f[x]]
\* f without the keys in ks (del f[k])
Drop(f, ks) == [x \in (DOMAIN f) \ ks |-> f[x]]

\* format_mac(address).lower(): configuration spells MAC addresses in upper
\* case, the device table is keyed by the lower-case spelling
format_mac_lower(a) ==
    CASE a = "M1" -> "m1" [] a = "M2" -> "m2" [] a = "R1" -> "r1" [] a = "R2" -> "r2"
      [] a = "B1" -> "b1" [] OTHER -> a
\* str.upper() of an address
upper(a) ==
    CASE a = "m1" -> "M1" [] a = "m2" -> "M2" [] a = "r1" -> "R1" [] a = "r2" -> "R2"
      [] a = "b1" -> "B1" [] a = "k1" -> "K1" [] a = "s1" -> "S1" [] a = "s2" -> "S2"
      [] OTHER -> a

\* _get_device: the record of an address, None when there is none
HasDevice(c, address) == format_mac_lower(address) \in DOMAIN c.devices

\* _get_or_create_device: the coordinator after the call
get_or_create_device(c, address) ==
    LET mac == format_mac_lower(address) IN
    IF mac \in DOMAIN c.devices THEN c
    ELSE [c EXCEPT !.devices = Put(c.devices, mac, BermudaDevice(mac, c.options))]

\* device.scanners: the dict the attribute refers to (update_metadevices makes a
\* metadevice share the dict object of its source device)
ScannersOf(c, a) ==
    LET ref == c.devices[a].scanners_ref IN
    IF ref \in DOMAIN c.devices THEN c.devices[ref].scanners ELSE <<>>

\* list.insert(0, x)
InsertHead(l, x) == <<x>> \o l
\* del l[n:]
Truncate(l, n) == IF Len(l) > n THEN SubSeq(l, 1, n) ELSE l
\* x in l
InList(l, x) == \E i \in 1..Len(l) : l[i] = x

(***************************************************************************)
(* Metadevices                                                             *)
(***************************************************************************)
\* register_ibeacon_source(source_device): the coordinator after the call;
\* src is source_device.address
register_ibeacon_source(c, src) ==
    LET sd == c.devices[src] IN
    IF BEACON_IBEACON_SOURCE \notin sd.beacon_type THEN c
    ELSE IF sd.beacon_unique_id = None THEN c
    ELSE
      LET c1 == get_or_create_device(c, Val(sd.beacon_unique_id))
          m  == format_mac_lower(Val(sd.beacon_unique_id))
          c2 == IF Len(c1.devices[m].beacon_sources) = 0
                THEN [c1 EXCEPT
                        !.metadevices = @ \cup {m},
                        !.devices[m].beacon_unique_id = sd.beacon_unique_id,
                        !.devices[m].beacon_uuid  = sd.beacon_uuid,
                        !.devices[m].beacon_major = sd.beacon_major,
                        !.devices[m].beacon_minor = sd.beacon_minor,
                        !.devices[m].beacon_power = sd.beacon_power,
                        !.devices[m].create_sensor =
                            IF upper(m) \in c1.options.devices THEN TRUE ELSE @]
                ELSE c1
      IN IF ~InList(c2.devices[m].beacon_sources, src)
         THEN [c2 EXCEPT !.devices[m].beacon_sources =
                              Truncate(InsertHead(@, src), HIST_KEEP_COUNT)]
         ELSE c2

\* The Private BLE Device integration's registry entries: each device_tracker
\* entity with its unique_id's first part (the IRK) and its device's name
PBEntities == <<"pb1">>
PBIrk(ent) == "k1"
PBDeviceName(ent) == Some("Phone")

\* discover_private_ble_metadevices, the body of the loop for one tracker
\* entity; cur is the entity's state attribute current_address (None: no state
\* or no address)
discover_private_ble_entity(c, ent, cur) ==
    LET c1 == get_or_create_device(c, PBIrk(ent))
        m  == format_mac_lower(PBIrk(ent))
        c2 == [c1 EXCEPT
                 !.devices[m].create_sensor = TRUE,
                 !.devices[m].name = PBDeviceName(ent),
                 !.devices[m].prefname = PBDeviceName(ent),
                 !.pb_state_sources =
                     IF ent \in DOMAIN @ THEN @ ELSE Put(@, ent, None),
                 !.metadevices = @ \cup {m}]
    IN IF cur # None
       THEN LET a  == format_mac_lower(Val(cur))
                c3 == get_or_create_device(c2, a)
                c4 == [c3 EXCEPT !.devices[a].beacon_type =
                                      @ \cup {BEACON_PRIVATE_BLE_SOURCE}]
                bs == c4.devices[m].beacon_sources
                c5 == IF Len(bs) = 0 \/ bs[1] # a
                      THEN [c4 EXCEPT !.devices[m].beacon_sources = InsertHead(@, a)]
                      ELSE c4
            IN [c5 EXCEPT !.pb_state_sources = Put(@, ent, Some(a))]
       ELSE c2

RECURSIVE discover_private_ble_loop(_, _, _)
discover_private_ble_loop(c, pbs, i) ==
    IF i > Len(PBEntities) THEN c
    ELSE discover_private_ble_loop(
            discover_private_ble_entity(c, PBEntities[i], pbs[PBEntities[i]]), pbs, i + 1)

\* a rediscovery that left its pending flag set
RediscoversAlways_Mutant(c, pbs) ==
    IF c.do_private_device_init THEN discover_private_ble_loop(c, pbs, 1) ELSE c

\* discover_private_ble_metadevices; pbs is hass.states of the tracker entities
discover_private_ble_metadevices(c, pbs) ==
    IF c.do_private_device_init
    THEN discover_private_ble_loop([c EXCEPT !.do_private_device_init = FALSE], pbs, 1)
    ELSE c

\* a metadevice that took its attributes from the oldest entry of its list
LatestSourceIndex_Mutant(sources) == Len(sources)

\* which entry of beacon_sources a metadevice takes its attributes from
LatestSourceIndex(sources) == 1

\* `if getattr(metadev, attribute) in [None, False]: setattr(...)`
KeepOrCopy(own, from_source) == IF own = None THEN from_source ELSE own

\* a metadevice that took its last_seen from its source without comparing
MetaLastSeen_Mutant(meta_last_seen, source_last_seen) == source_last_seen

\* the last_seen a metadevice has after update_metadevices saw its source
MetaLastSeen(meta_last_seen, source_last_seen) ==
    IF source_last_seen > meta_last_seen THEN source_last_seen ELSE meta_last_seen

\* update_metadevices, the body of the loop for one metadevice.  The record
\* self.metadevices[m] is the object self.devices[m].
update_metadevice(c, m) ==
    LET metadev == c.devices[m] IN
    IF Len(metadev.beacon_sources) = 0 THEN c
    ELSE
      LET latest_source == metadev.beacon_sources[LatestSourceIndex(metadev.beacon_sources)] IN
      IF ~HasDevice(c, latest_source) THEN c
      ELSE
        LET source_device == c.devices[format_mac_lower(latest_source)] IN
        [c EXCEPT !.devices[m] =
            [metadev EXCEPT
               !.scanners_ref  = source_device.scanners_ref,
               !.local_name    = KeepOrCopy(@, source_device.local_name),
               !.manufacturer  = KeepOrCopy(@, source_device.manufacturer),
               !.name          = KeepOrCopy(@, source_device.name),
               !.prefname      = KeepOrCopy(@, source_device.prefname),
               !.area_distance = source_device.area_distance,
               !.area_id       = source_device.area_id,
               !.area_name     = source_device.area_name,
               !.area_rssi     = source_device.area_rssi,
               !.area_scanner  = source_device.area_scanner,
               !.beacon_major  = source_device.beacon_major,
               !.beacon_minor  = source_device.beacon_minor,
               !.beacon_power  = source_device.beacon_power,
               !.beacon_unique_id = source_device.beacon_unique_id,
               !.beacon_uuid   = source_device.beacon_uuid,
               !.connectable   = source_device.connectable,
               !.zone          = source_device.zone,
               !.last_seen     = MetaLastSeen(@, source_device.last_seen)]]

\* the elements of a set of addresses in ascending order
RECURSIVE SortedAddrs(_)
SortedAddrs(S) ==
    IF S = {} THEN <<>>
    ELSE LET a == CHOOSE x \in S : \A y \in S : AddrRank(x) <= AddrRank(y)
         IN <<a>> \o SortedAddrs(S \ {a})

RECURSIVE update_metadevices_loop(_, _, _)
update_metadevices_loop(c, ms, i) ==
    IF i > Len(ms) THEN c
    ELSE update_metadevices_loop(update_metadevice(c, ms[i]), ms, i + 1)

\* update_metadevices
update_metadevices(c, pbs) ==
    LET c1 == discover_private_ble_metadevices(c, pbs)
    IN update_metadevices_loop(c1, SortedAddrs(c1.metadevices), 1)

(***************************************************************************)
(* Python floats: exact rationals [n, d] in lowest terms with d > 0        *)
(***************************************************************************)
Abs(i) == IF i < 0 THEN -i ELSE i
RECURSIVE Gcd(_, _)
Gcd(a, b) == IF b = 0 THEN a ELSE Gcd(b, a % b)
Rat(n, d) ==
    LET g == Gcd(Abs(n), Abs(d))
        sgn == IF d < 0 THEN -1 ELSE 1
    IN [n |-> sgn * (n \div g), d |-> sgn * (d \div g)]
RInt(i) == [n |-> i, d |-> 1]
RAdd(x, y) == Rat(x.n * y.d + y.n * x.d, x.d * y.d)
RSub(x, y) == Rat(x.n * y.d - y.n * x.d, x.d * y.d)
RMul(x, y) == Rat(x.n * y.n, x.d * y.d)
RDiv(x, y) == Rat(x.n * y.d, x.d * y.n)
RLess(x, y) == x.n * y.d < y.n * x.d
RECURSIVE RPowInt(_, _)
RPowInt(x, k) == IF k = 0 THEN RInt(1) ELSE RMul(x, RPowInt(x, k - 1))

(***************************************************************************)
(* Pruning                                                                 *)
(***************************************************************************)
\* metadevice_source_primos: the head source of every tracked metadevice
metadevice_source_primos(c) ==
    { c.devices[m].beacon_sources[1] :
        m \in { x \in c.metadevices : Len(c.devices[x].beacon_sources) > 0 } }

\* a prune_devices that did not spare scanners
PruneEligible_Mutant(c, a) ==
    LET device == c.devices[a] IN
    /\ a \notin metadevice_source_primos(c)
    /\ ~device.create_sensor
    /\ device.last_seen > 0
    /\ device.address_type # BDADDR_TYPE_NOT_MAC48

\* a prune_devices that took an address that is no MAC address like any other
PrunesSynthetic_Mutant(c, a) ==
    LET device == c.devices[a] IN
    /\ a \notin metadevice_source_primos(c)
    /\ ~device.create_sensor
    /\ ~device.is_scanner
    /\ device.last_seen > 0

\* the condition under which prune_devices considers a device at all
PruneEligible(c, a) ==
    LET device == c.devices[a] IN
    /\ a \notin metadevice_source_primos(c)
    /\ ~device.create_sensor
    /\ ~device.is_scanner
    /\ device.last_seen > 0
    /\ device.address_type # BDADDR_TYPE_NOT_MAC48

\* a prune_devices with one staleness window for every address type
PruneStale_Mutant(device, t) == device.last_seen < t - PRUNE_TIME_DEFAULT

\* the condition under which an eligible device is put on prune_list at once
PruneStale(device, t) ==
    IF device.address_type = BDADDR_TYPE_PRIVATE_RESOLVABLE
    THEN device.last_seen < t - PRUNE_TIME_IRK
    ELSE device.last_seen < t - PRUNE_TIME_DEFAULT

\* a prune_devices that trimmed in the order of the addresses
SortedByStamp_Mutant(c, S) == SortedAddrs(S)

\* sorted([(v, k) for k, v in prunable_stamps.items()]): the addresses of S by
\* ascending (last_seen, address)
RECURSIVE SortedByStamp(_, _)
SortedByStamp(c, S) ==
    IF S = {} THEN <<>>
    ELSE LET a == CHOOSE x \in S : \A y \in S :
                    \/ c.devices[x].last_seen < c.devices[y].last_seen
                    \/ /\ c.devices[x].last_seen = c.devices[y].last_seen
                       /\ AddrRank(x) <= AddrRank(y)
         IN <<a>> \o SortedByStamp(c, S \ {a})

\* the first n elements of a list as a set (l[:n], n may exceed the length)
FirstN(l, n) == { l[i] : i \in 1..(IF n < Len(l) THEN n ELSE Len(l)) }

\* prune_quota (line 534) of prune_devices at time t
PruneQuota(c, t) ==
    LET eligible == { a \in DOMAIN c.devices : PruneEligible(c, a) }
        prune_list == { a \in eligible : PruneStale(c.devices[a], t) }
    IN Cardinality(DOMAIN c.devices) - Cardinality(prune_list) - PRUNE_MAX_COUNT

\* the addresses prune_devices deletes at time t
PruneList(c, t) ==
    LET eligible == { a \in DOMAIN c.devices : PruneEligible(c, a) }
        prune_list == { a \in eligible : PruneStale(c.devices[a], t) }
        prunable_stamps == eligible \ prune_list
        prune_quota == Cardinality(DOMAIN c.devices) - Cardinality(prune_list)
                         - PRUNE_MAX_COUNT
    IN IF prune_quota > 0
       THEN prune_list \cup FirstN(SortedByStamp(c, prunable_stamps), prune_quota)
       ELSE prune_list

\* prune_devices at time t: the coordinator after the call
prune_devices(c, t) ==
    [c EXCEPT !.devices = Drop(@, PruneList(c, t)),
              !.prune_list = PruneList(c, t),
              !.prune_quota = PruneQuota(c, t)]

(***************************************************************************)
(* Area assignment                                                         *)
(***************************************************************************)
\* area_reg.async_get_area(area_id): the registry's area names
AreaName(area_id) ==
    CASE area_id = Some("area1") -> Some("Kitchen")
      [] area_id = Some("area2") -> Some("Hall")
      [] area_id = Some("area3") -> Some("Study")
      [] OTHER -> None

\* f"No area: {closest_scanner.name}"
NoAreaName(name) ==
    CASE name = Some("Proxy s1") -> Some("No area: Proxy s1")
      [] name = Some("Proxy s2") -> Some("No area: Proxy s2")
      [] name = Some("Proxy s3") -> Some("No area: Proxy s3")
      [] name = Some("Proxy s4") -> Some("No area: Proxy s4")
      [] OTHER -> Some("No area: None")

\* a loop that moved on to a later contact at the same distance
ClosestScanner_Mutant(contacts, max_radius, i) ==
    LET Q == { k \in 1..i :
                 /\ contacts[k].rssi_distance # None
                 /\ RLess(Val(contacts[k].rssi_distance), max_radius) }
    IN IF Q = {} THEN 0
       ELSE CHOOSE k \in Q : \A j \in Q :
               \/ RLess(Val(contacts[k].rssi_distance), Val(contacts[j].rssi_distance))
               \/ /\ contacts[k].rssi_distance = contacts[j].rssi_distance
                  /\ j <= k

\* an area assignment that left the fields alone when no contact qualifies
KeepsStaleArea_Mutant(c, a) == c

\* lines 761-766: no contact qualifies
clear_area(c, a) ==
    [c EXCEPT
       !.devices[a].area_id = None,
       !.devices[a].area_name = None,
       !.devices[a].area_distance = None,
       !.devices[a].area_rssi = None,
       !.devices[a].area_scanner = None]

\* the loop of _refresh_area_by_min_distance: the index in contacts of the
\* closest scanner after contacts 1..i were looked at, 0 for None
RECURSIVE ClosestScanner(_, _, _)
ClosestScanner(contacts, max_radius, i) ==
    IF i = 0 THEN 0
    ELSE LET closest == ClosestScanner(contacts, max_radius, i - 1)
             scanner == contacts[i]
         IN IF scanner.rssi_distance # None
               /\ RLess(Val(scanner.rssi_distance), max_radius)
            THEN IF closest = 0 THEN i
                 ELSE IF contacts[closest].rssi_distance = None
                         \/ RLess(Val(scanner.rssi_distance),
                                  Val(contacts[closest].rssi_distance))
                      THEN i
                      ELSE closest
            ELSE closest

\* _refresh_area_by_min_distance(device): the coordinator after the call
refresh_area_by_min_distance(c, a) ==
    LET contacts == ScannersOf(c, a)
        closest == ClosestScanner(contacts, c.options.max_radius, Len(contacts))
    IN IF closest # 0
       THEN LET closest_scanner == contacts[closest] IN
            [c EXCEPT
               !.devices[a].area_id = closest_scanner.area_id,
               !.devices[a].area_name =
                   IF AreaName(closest_scanner.area_id) # None
                   THEN AreaName(closest_scanner.area_id)
                   ELSE NoAreaName(closest_scanner.name),
               !.devices[a].area_distance = closest_scanner.rssi_distance,
               !.devices[a].area_rssi = closest_scanner.rssi,
               !.devices[a].area_scanner = closest_scanner.name]
       ELSE clear_area(c, a)

RECURSIVE refresh_areas_loop(_, _, _)
refresh_areas_loop(c, as, i) ==
    IF i > Len(as) THEN c
    ELSE refresh_areas_loop(
            IF c.devices[as[i]].is_scanner THEN c ELSE refresh_area_by_min_distance(c, as[i]),
            as, i + 1)

\* _refresh_areas_by_min_distance
refresh_areas_by_min_distance(c) ==
    refresh_areas_loop(c, SortedAddrs(DOMAIN c.devices), 1)

(***************************************************************************)
(* Exceptions: the first exception raised and not caught is kept in exc    *)
(***************************************************************************)
Raise(c, e) == IF c.exc = None THEN [c EXCEPT !.exc = Some(e)] ELSE c
Raised(c) == c.exc # None

(***************************************************************************)
(* Distance model                                                          *)
(***************************************************************************)
\* 10 ** k for a whole exponent k
Pow10(k) == IF k >= 0 THEN RPowInt(RInt(10), k) ELSE RPowInt(Rat(1, 10), -k)

\* a computation with another built-in power at one metre
OtherTxPower_Mutant(rssi) == Pow10((-79 - rssi) \div (10 * 2))

\* calculate_distance_from_rssi(rssi); the signal strengths of the model make
\* (txPower - rssi) / (10 * n) a whole number
calculate_distance_from_rssi(rssi) ==
    LET txPower == -59
        n == 2
    IN Pow10((txPower - rssi) \div (10 * n))

\* the key f"{device.address}_{scanner.address}" of path_loss_factors
PathKey(device_address, scanner_address) == <<device_address, scanner_address>>

\* calculate_path_loss_factor: the coordinator after the call (the default is
\* stored on first use) and the value returned
calculate_path_loss_factor(c, path_key) ==
    IF path_key \in DOMAIN c.path_loss_factors THEN c
    ELSE [c EXCEPT !.path_loss_factors = Put(@, path_key, RInt(2))]

\* self.path_loss_factors.get(path_key, 2.0)
PathLossFactor(c, path_key) ==
    IF path_key \in DOMAIN c.path_loss_factors THEN c.path_loss_factors[path_key]
    ELSE RInt(2)

\* an update that took the measured loss as the new factor
ReplacesFactor_Mutant(c, path_key, measured_loss) ==
    [c EXCEPT !.path_loss_factors = Put(@, path_key, measured_loss)]

\* update_path_loss_factor: current * (1 - alpha) + measured_loss * alpha
update_path_loss_factor(c, path_key, measured_loss) ==
    LET current_factor == PathLossFactor(c, path_key)
        alpha == Rat(1, 10)
        updated_factor == RAdd(RMul(current_factor, RSub(RInt(1), alpha)),
                               RMul(measured_loss, alpha))
    IN [c EXCEPT !.path_loss_factors = Put(@, path_key, updated_factor)]

(***************************************************************************)
(* Obstruction map: a sequence of samples [x, y, v] in insertion order,    *)
(* on integer grid points; query points are given in half units (qx2 = 2x) *)
(***************************************************************************)
\* the squared distance, in half units, of sample k from the query point
SampleDist2(k, qx2, qy2) ==
    (2 * k.x - qx2) * (2 * k.x - qx2) + (2 * k.y - qy2) * (2 * k.y - qy2)

\* a lookup that took the first sample of the map
FirstSample_Mutant(map, qx2, qy2) == 1

\* min(keys, key = hypot ...): the first sample at the least distance
NearestSample(map, qx2, qy2) ==
    CHOOSE i \in 1..Len(map) :
        /\ \A j \in 1..Len(map) :
              SampleDist2(map[i], qx2, qy2) <= SampleDist2(map[j], qx2, qy2)
        /\ \A j \in 1..(i - 1) :
              SampleDist2(map[j], qx2, qy2) > SampleDist2(map[i], qx2, qy2)

\* get_field_strength_estimate(x, y) on a map that is not empty
get_field_strength_estimate(map, qx2, qy2) == map[NearestSample(map, qx2, qy2)].v

Min(a, b) == IF a < b THEN a ELSE b
Max(a, b) == IF a > b THEN a ELSE b

\* count_wall_crossings(start, end) on a map that is not empty
count_wall_crossings(map, start, end) ==
    LET x1 == start[1]  y1 == start[2]
        x2 == end[1]    y2 == end[2]
        xs == { x \in Min(x1, x2)..Max(x1, x2) :
                  get_field_strength_estimate(map, 2 * x, y1 + y2)
                    < get_field_strength_estimate(map, 2 * x + 1, y1 + y2) }
        ys == { y \in Min(y1, y2)..Max(y1, y2) :
                  get_field_strength_estimate(map, x1 + x2, 2 * y)
                    < get_field_strength_estimate(map, x1 + x2, 2 * y + 1) }
    IN Cardinality(xs) + Cardinality(ys)

\* math.hypot(dx, dy) ** factor where the result is rational: an even whole
\* factor 2k gives (dx^2 + dy^2)^k, and 0 and 1 are fixed by every positive
\* power; no other case is given a value
HypotPow(dx, dy, factor) ==
    LET d2 == dx * dx + dy * dy IN
    IF factor.d = 1 /\ factor.n >= 0 /\ factor.n % 2 = 0
    THEN RPowInt(RInt(d2), factor.n \div 2)
    ELSE IF d2 \in {0, 1} /\ factor.n > 0 THEN RInt(d2)
    ELSE CHOOSE r \in {} : TRUE

\* device.update_distance_to_scanner(scanner, distance): writes the distance
\* onto the device's contact of that scanner (bermuda_device.py, from the
\* specification: "writes the adjusted distance onto the (device, scanner)
\* contact")
update_distance_to_scanner(c, a, scanner_address, distance) ==
    LET ref == c.devices[a].scanners_ref IN
    [c EXCEPT !.devices[ref].scanners =
        [i \in 1..Len(@) |->
            IF @[i].scanner = scanner_address
            THEN [@[i] EXCEPT !.rssi_distance = Some(distance)]
            ELSE @[i]]]

\* apply_path_loss_factor(device, scanner): the coordinator after the call
apply_path_loss_factor(c, a, scanner_address) ==
    LET path_key == PathKey(a, scanner_address)
        c1 == calculate_path_loss_factor(c, path_key)
        path_loss_factor == c1.path_loss_factors[path_key]
        device == c1.devices[a]
        scanner == c1.devices[scanner_address]
    IN IF device.position = None \/ scanner.position = None
       THEN Raise(c1, "AttributeError")
       ELSE IF Len(c1.obstruction_map) = 0
       THEN Raise(c1, "ValueError")
       ELSE
         LET start == Val(device.position)
             end == Val(scanner.position)
             wall_crossings == count_wall_crossings(c1.obstruction_map, start, end)
             adjusted_distance ==
                 RMul(HypotPow(end[1] - start[1], end[2] - start[2], path_loss_factor),
                      RPowInt(Rat(1, 2), wall_crossings))
         IN update_distance_to_scanner(c1, a, scanner_address, adjusted_distance)

(***************************************************************************)
(* Advertisements.  An entry of the advertisement cache (a service_info    *)
(* and the scanners that heard its address) is a record                    *)
(*   [manufacturer_data : sequence of [company_code, man_data],            *)
(*    name, local_name, manufacturer : optional strings,                   *)
(*    connectable : BOOLEAN,                                               *)
(*    scanners : sequence of [source, rssi, time]]                         *)
(* and man_data names one of the payloads below.                           *)
(***************************************************************************)
Uuid1 == <<1, 2, 3, 4, 5, 6, 7, 8, 9, 10, 11, 12, 13, 14, 15, 16>>
ManData(id) ==
    CASE id = "ibeacon_b1"    -> <<2, 21>> \o Uuid1 \o <<0, 1, 0, 2, 197>>
      [] id = "ibeacon_short" -> <<2, 21, 1, 2, 3>>
      [] id = "apple_other"   -> <<16, 5, 1>>

\* bytes[i:j], indices from 0, cut at the end of the buffer
Slice(b, i, j) ==
    LET hi == IF j < Len(b) THEN j ELSE Len(b)
    IN IF i >= hi THEN <<>> ELSE SubSeq(b, i + 1, hi)

\* int.from_bytes(b, byteorder="big")
RECURSIVE FromBytesBig(_)
FromBytesBig(b) ==
    IF Len(b) = 0 THEN 0
    ELSE 256 * FromBytesBig(SubSeq(b, 1, Len(b) - 1)) + b[Len(b)]

\* int.from_bytes([x], signed=True)
SignedByte(x) == IF x >= 128 THEN x - 256 ELSE x

\* f"{beacon_uuid}_{beacon_major}_{beacon_minor}" as an address
BeaconUniqueId(uuid, major, minor) ==
    IF uuid = Uuid1 /\ major = 1 /\ minor = 2 THEN "b1" ELSE "b_unknown"

\* clean_charbuf(man_data.hex())
HexName(id) == IF id = "apple_other" THEN "100501" ELSE "hex"

\* DOMAIN + "_" + slugify(device.address)
DomainDefaultName(a) ==
    CASE a = "m1" -> "bermuda_m1" [] a = "m2" -> "bermuda_m2"
      [] a = "r1" -> "bermuda_r1" [] a = "r2" -> "bermuda_r2"
      [] OTHER -> "bermuda_other"
\* prefname.startswith(DOMAIN + "_")
IsDomainDefaultName(n) ==
    n \in {"bermuda_m1", "bermuda_m2", "bermuda_r1", "bermuda_r2", "bermuda_other"}

\* the body of the loop over manufacturer_data.items() for one item
ingest_manufacturer_item(c, a, item) ==
    IF item.company_code # 76 THEN c
    ELSE
      LET man_data == ManData(item.man_data) IN
      IF Slice(man_data, 0, 2) = <<2, 21>>
      THEN
        LET uuid  == Slice(man_data, 2, 18)
            major == FromBytesBig(Slice(man_data, 18, 20))
            minor == FromBytesBig(Slice(man_data, 20, 22))
            c1 == [c EXCEPT
                     !.devices[a].beacon_type  = @ \cup {BEACON_IBEACON_SOURCE},
                     !.devices[a].beacon_uuid  = Some(uuid),
                     !.devices[a].beacon_major = Some(major),
                     !.devices[a].beacon_minor = Some(minor)]
        IN IF Len(man_data) < 23 THEN Raise(c1, "IndexError")
           ELSE
             LET unique_id == BeaconUniqueId(uuid, major, minor)
                 c2 == [c1 EXCEPT
                          !.devices[a].beacon_power = Some(SignedByte(man_data[23])),
                          !.devices[a].beacon_unique_id = Some(unique_id),
                          !.devices[a].prefname = Some(unique_id)]
             IN register_ibeacon_source(c2, a)
      ELSE [c EXCEPT !.devices[a].prefname = Some(HexName(item.man_data))]

RECURSIVE ingest_manufacturer_data(_, _, _, _)
ingest_manufacturer_data(c, a, items, i) ==
    IF i > Len(items) \/ Raised(c) THEN c
    ELSE ingest_manufacturer_data(ingest_manufacturer_item(c, a, items[i]), a, items, i + 1)

\* x or y
Or(x, y) == IF x # None THEN x ELSE y

\* lines 438-447: names, manufacturer, connectable, the preferred name
ingest_names(c, a, info) ==
    LET d  == c.devices[a]
        d1 == [d EXCEPT
                 !.name = IF @ = None /\ info.name # None THEN info.name ELSE @,
                 !.local_name =
                     IF @ = None /\ info.local_name # None THEN info.local_name ELSE @,
                 !.manufacturer = Or(@, info.manufacturer),
                 !.connectable = info.connectable]
        d2 == IF d1.prefname = None \/ IsDomainDefaultName(Val(d1.prefname))
              THEN [d1 EXCEPT !.prefname =
                        Or(d1.name, Or(d1.local_name, Some(DomainDefaultName(a))))]
              ELSE d1
    IN [c EXCEPT !.devices[a] = d2]

(***************************************************************************)
(* Scanner roster                                                          *)
(***************************************************************************)
\* hass.data["device_registry"]: the registry entries with a mac or bluetooth
\* connection, by address
DeviceRegistry ==
    [a \in Scanners \cup FarScanners |->
        CASE a = "s1" -> [area_id |-> Some("area1"), name |-> Some("Proxy s1")]
          [] a = "s2" -> [area_id |-> Some("area2"), name |-> Some("Proxy s2")]
          [] a = "s3" -> [area_id |-> Some("area3"), name |-> Some("Proxy s3")]
          [] a = "s4" -> [area_id |-> None, name |-> Some("Proxy s4")]]

\* the body of _refresh_scanners for one registry entry found in addresses
\* (the end of the function is not part of the sources at hand; section 4.4
\* step 5 and section 7 (b) of the specification: the roster is refreshed
\* from the registry)
refresh_scanner_entry(c, a) ==
    LET c1 == get_or_create_device(c, a) IN
    [c1 EXCEPT
       !.devices[a].area_id = DeviceRegistry[a].area_id,
       !.devices[a].name = DeviceRegistry[a].name,
       !.devices[a].area_name = AreaName(DeviceRegistry[a].area_id),
       !.devices[a].is_scanner = TRUE]

RECURSIVE refresh_scanners_loop(_, _, _)
refresh_scanners_loop(c, as, i) ==
    IF i > Len(as) THEN c
    ELSE refresh_scanners_loop(refresh_scanner_entry(c, as[i]), as, i + 1)

\* _refresh_scanners(scanners); sources is the set of scanner.source.lower()
\* of the scanners given ({} when none is given)
refresh_scanners(c, sources) ==
    LET addresses == IF c.do_full_scanner_init
                     THEN sources \cup c.scanner_list ELSE sources
        c1 == [c EXCEPT !.do_full_scanner_init = FALSE]
        c2 == refresh_scanners_loop(
                  c1, SortedAddrs(addresses \cap DOMAIN DeviceRegistry), 1)
    IN [c2 EXCEPT !.scanner_list =
           { a \in DOMAIN c2.devices : c2.devices[a].is_scanner }]

(***************************************************************************)
(* Scanner contacts (bermuda_device.py and bermuda_device_scanner.py are   *)
(* not part of the sources at hand; sections 3 and 4.1 of the              *)
(* specification)                                                          *)
(***************************************************************************)
\* distance = 10 ^ ((reference_power - rssi) / (10 * exponent))
rssi_to_metres(rssi, reference_power, attenuation) ==
    Pow10((reference_power - rssi) \div (10 * attenuation))

\* the per-scanner rssi_offset of the options
RssiOffset(c, scanner_address) ==
    IF scanner_address \in DOMAIN c.options.rssi_offsets
    THEN c.options.rssi_offsets[scanner_address] ELSE 0

ContactIndex(contacts, scanner_address) ==
    IF \E i \in 1..Len(contacts) : contacts[i].scanner = scanner_address
    THEN CHOOSE i \in 1..Len(contacts) : contacts[i].scanner = scanner_address
    ELSE 0

\* device.update_scanner(scanner_device, discovered): the contact is created on
\* the first observation from that scanner and updated on every later one
update_scanner(c, a, scanner_address, discovered) ==
    LET scanner_device == c.devices[scanner_address]
        contact ==
            [ scanner  |-> scanner_address,
              name     |-> scanner_device.name,
              area_id  |-> scanner_device.area_id,
              rssi     |-> Some(discovered.rssi),
              rssi_distance |->
                  Some(rssi_to_metres(discovered.rssi + RssiOffset(c, scanner_address),
                                      c.options.ref_power, c.options.attenuation)),
              stamp    |-> Some(discovered.time) ]
        ref == c.devices[a].scanners_ref
        old == c.devices[ref].scanners
        i == ContactIndex(old, scanner_address)
    IN [c EXCEPT
          !.devices[ref].scanners =
              IF i = 0 THEN Append(old, contact)
              ELSE [old EXCEPT ![i] = contact],
          !.devices[a].last_seen = Max(@, discovered.time)]

\* a loop that dropped the observation of an unknown scanner without
\* refreshing the roster
DropsWithoutRefresh_Mutant(c, a, matched_scanners, discovered) ==
    LET source == format_mac_lower(discovered.source)
    IN IF ~HasDevice(c, source) THEN c
       ELSE apply_path_loss_factor(update_scanner(c, a, source, discovered), a, source)

\* the body of the loop over matched_scanners for one scanner
ingest_scanner(c, a, matched_scanners, discovered) ==
    LET source == format_mac_lower(discovered.source)
        c1 == IF ~HasDevice(c, source)
              THEN refresh_scanners(
                     [c EXCEPT !.do_full_scanner_init = TRUE,
                               !.do_private_device_init = TRUE],
                     { format_mac_lower(matched_scanners[j].source) :
                          j \in 1..Len(matched_scanners) })
              ELSE c
    IN IF ~HasDevice(c1, source) THEN c1
       ELSE apply_path_loss_factor(update_scanner(c1, a, source, discovered), a, source)

RECURSIVE ingest_scanners(_, _, _, _)
ingest_scanners(c, a, matched_scanners, i) ==
    IF i > Len(matched_scanners) \/ Raised(c) THEN c
    ELSE ingest_scanners(ingest_scanner(c, a, matched_scanners, matched_scanners[i]),
                         a, matched_scanners, i + 1)

\* lines 422-469: the body of the loop over the advertisement cache for one
\* service_info
ingest_service_info(c, address, info) ==
    LET a  == format_mac_lower(address)
        c1 == get_or_create_device(c, address)
        c2 == ingest_manufacturer_data(c1, a, info.manufacturer_data, 1)
    IN IF Raised(c2) THEN c2
       ELSE ingest_scanners(ingest_names(c2, a, info), a, info.scanners, 1)

RECURSIVE ingest_loop(_, _, _, _)
ingest_loop(c, cache, as, i) ==
    IF i > Len(as) \/ Raised(c) THEN c
    ELSE ingest_loop(ingest_service_info(c, as[i], cache[as[i]]), cache, as, i + 1)

\* lines 421-469: the loop over bluetooth.async_discovered_service_info
ingest(c, cache) == ingest_loop(c, cache, SortedAddrs(DOMAIN cache), 1)

\* lines 471-473: placeholders for the configured devices, in the first cycle
RECURSIVE create_configured_loop(_, _, _)
create_configured_loop(c, as, i) ==
    IF i > Len(as) THEN c
    ELSE create_configured_loop(get_or_create_device(c, as[i]), as, i + 1)

create_configured_devices(c) ==
    IF c.stamp_last_update = 0
    THEN create_configured_loop(c, SortedAddrs(c.options.devices), 1)
    ELSE c

\* A distance is a real number that is not negative, given by its square:
\* math.hypot of whole coordinates is the root of a whole number.
Root(sq) == [sq |-> sq]
\* d ** 2
Square(d) == d.sq
\* the distance of a rational value that is not negative
Distance(q) == Root(RMul(q, q))
\* math.hypot(dx, dy)
hypot(dx, dy) == Root(RInt(dx * dx + dy * dy))

\* the sum of a sequence of rationals
RECURSIVE RSum(_, _)
RSum(xs, i) == IF i > Len(xs) THEN RInt(0) ELSE RAdd(xs[i], RSum(xs, i + 1))

\* np.linalg.lstsq(A, b, rcond=None)[0] for a matrix A of whole numbers with
\* two columns (rows is the sequence of its rows): the least-squares solution
\* of least norm.  With A of full rank it is the solution of the normal
\* equations; with A of rank one it is A^T b / trace(A^T A); with A = 0 it is
\* the origin.  lstsq raises LinAlgError only when the SVD does not converge,
\* which no finite input of the model brings about.
lstsq(rows, b) ==
    LET n == Len(rows)
        m11 == RSum([i \in 1..n |-> RInt(rows[i][1] * rows[i][1])], 1)
        m12 == RSum([i \in 1..n |-> RInt(rows[i][1] * rows[i][2])], 1)
        m22 == RSum([i \in 1..n |-> RInt(rows[i][2] * rows[i][2])], 1)
        v1 == RSum([i \in 1..n |-> RMul(RInt(rows[i][1]), b[i])], 1)
        v2 == RSum([i \in 1..n |-> RMul(RInt(rows[i][2]), b[i])], 1)
        det == RSub(RMul(m11, m22), RMul(m12, m12))
        trace == RAdd(m11, m22)
    IN IF det # RInt(0)
       THEN << RDiv(RSub(RMul(m22, v1), RMul(m12, v2)), det),
               RDiv(RSub(RMul(m11, v2), RMul(m12, v1)), det) >>
       ELSE IF trace # RInt(0)
       THEN << RDiv(v1, trace), RDiv(v2, trace) >>
       ELSE << RInt(0), RInt(0) >>

\* trilaterate(positions, distances) for positions in the plane with whole
\* coordinates; kind is how a position is represented ("tuple" or "array").
\* The result is [raised, value].  No position at all raises IndexError at
\* positions[0]; one position raises ValueError when the empty array and
\* positions[0] are subtracted; positions given as tuples raise TypeError at
\* positions[0] ** 2.  Every other input returns tuple(estimated_position).
trilaterate(positions, distances, kind) ==
    IF Len(positions) = 0 THEN [raised |-> TRUE, value |-> None]
    ELSE IF Len(positions) = 1 THEN [raised |-> TRUE, value |-> None]
    ELSE IF kind = "tuple" THEN [raised |-> TRUE, value |-> None]
    ELSE
      LET p0 == positions[1]
          Sq(v) == v[1] * v[1] + v[2] * v[2]
          D2(i) == Square(distances[i])
          A == [i \in 1..(Len(positions) - 1) |->
                  << 2 * positions[i + 1][1] - 2 * p0[1],
                     2 * positions[i + 1][2] - 2 * p0[2] >>]
          b == [i \in 1..(Len(positions) - 1) |->
                  RAdd(RSub(D2(1), D2(i + 1)),
                       RInt(Sq(positions[i + 1]) - Sq(p0)))]
      IN [raised |-> FALSE, value |-> Some(lstsq(A, b))]

\* the scanner contacts of a device that perform_trilateration uses
TrilaterationInputs(c, a) ==
    LET contacts == ScannersOf(c, a) IN
    SelectSeq(contacts,
              LAMBDA s : /\ s.rssi_distance # None
                         /\ s.scanner \in DOMAIN c.devices
                         /\ c.devices[s.scanner].position # None)

\* a perform_trilateration without its try block: what the solver raises
\* reaches the cycle
PropagatesSolverError_Mutant(c, a) ==
    IF ~c.options.enable_trilateration THEN c
    ELSE
      LET used == TrilaterationInputs(c, a)
          positions == [i \in 1..Len(used) |-> Val(c.devices[used[i].scanner].position)]
          distances == [i \in 1..Len(used) |-> Distance(Val(used[i].rssi_distance))]
      IN IF Len(positions) >= 3
         THEN LET r == trilaterate(positions, distances, c.options.position_kind)
              IN IF r.raised THEN Raise(c, "TypeError")
                 ELSE [c EXCEPT !.devices[a].trilaterated_position = r.value]
         ELSE c

\* a perform_trilateration content with two positions
SolvesWithTwo_Mutant(c, a) ==
    IF ~c.options.enable_trilateration THEN c
    ELSE
      LET used == TrilaterationInputs(c, a)
          positions == [i \in 1..Len(used) |-> Val(c.devices[used[i].scanner].position)]
          distances == [i \in 1..Len(used) |-> Distance(Val(used[i].rssi_distance))]
      IN IF Len(positions) >= 2
         THEN LET r == trilaterate(positions, distances, c.options.position_kind)
              IN IF r.raised THEN c
                 ELSE [c EXCEPT !.devices[a].trilaterated_position = r.value]
         ELSE c

\* perform_trilateration(device): the coordinator after the call
perform_trilateration(c, a) ==
    IF ~c.options.enable_trilateration THEN c
    ELSE
      LET used == TrilaterationInputs(c, a)
          positions == [i \in 1..Len(used) |-> Val(c.devices[used[i].scanner].position)]
          distances == [i \in 1..Len(used) |-> Distance(Val(used[i].rssi_distance))]
      IN IF Len(positions) >= 3
         THEN LET r == trilaterate(positions, distances, c.options.position_kind)
              IN IF r.raised THEN c
                 ELSE [c EXCEPT !.devices[a].trilaterated_position = r.value]
         ELSE c

(***************************************************************************)
(* Path-loss fine tuning                                                   *)
(***************************************************************************)
\* math.log(estimated_distance / actual_distance, 10) where actual_distance is
\* the root of d2 and the quotient is a power of ten; no other case is given
\* a value
Log10Quotient(estimated_distance, d2) ==
    LET q == RDiv(RMul(estimated_distance, estimated_distance), RInt(d2))
    IN CHOOSE k \in -3..3 :
          q = (IF k >= 0 THEN RPowInt(RInt(100), k) ELSE RPowInt(Rat(1, 100), -k))

\* the body of the loops of fine_tune_path_loss_factor for one beacon and one
\* scanner contact of the device
fine_tune_contact(c, a, beacon, scanner) ==
    IF scanner.rssi = None THEN c
    ELSE IF scanner.scanner \notin DOMAIN c.devices
            \/ c.devices[scanner.scanner].position = None
    THEN Raise(c, "AttributeError")
    ELSE
      LET bp == Val(beacon.position)
          sp == Val(c.devices[scanner.scanner].position)
          d2 == (bp[1] - sp[1]) * (bp[1] - sp[1]) + (bp[2] - sp[2]) * (bp[2] - sp[2])
          estimated_distance == calculate_distance_from_rssi(Val(scanner.rssi))
      IN IF d2 = 0 THEN Raise(c, "ZeroDivisionError")
         ELSE update_path_loss_factor(c, PathKey(a, scanner.scanner),
                                      RInt(Log10Quotient(estimated_distance, d2)))

RECURSIVE fine_tune_contacts(_, _, _, _, _)
fine_tune_contacts(c, a, beacon, contacts, i) ==
    IF i > Len(contacts) \/ Raised(c) THEN c
    ELSE fine_tune_contacts(fine_tune_contact(c, a, beacon, contacts[i]),
                            a, beacon, contacts, i + 1)

RECURSIVE fine_tune_beacons(_, _, _)
fine_tune_beacons(c, a, i) ==
    IF i > Len(c.fixed_beacons) \/ Raised(c) THEN c
    ELSE LET beacon_address == c.fixed_beacons[i] IN
         fine_tune_beacons(
            IF beacon_address \in DOMAIN c.devices
               /\ c.devices[beacon_address].position # None
            THEN fine_tune_contacts(c, a, c.devices[beacon_address], ScannersOf(c, a), 1)
            ELSE c,
            a, i + 1)

\* a fine tuning that took every device for a fixed beacon one metre from
\* the first scanner that hears it
TunesWithoutBeacon_Mutant(c, a) ==
    IF Len(ScannersOf(c, a)) = 0 THEN c
    ELSE update_path_loss_factor(c, PathKey(a, ScannersOf(c, a)[1].scanner), RInt(1))

\* fine_tune_path_loss_factor(device): the coordinator after the call
fine_tune_path_loss_factor(c, a) == fine_tune_beacons(c, a, 1)

\* device.calculate_data() (bermuda_device.py is not part of the sources at
\* hand; of the attributes of the model it changes none)
calculate_data(c, a) == c

\* lines 475-478: the loop over self.devices.values()
RECURSIVE derive_loop(_, _, _)
derive_loop(c, as, i) ==
    IF i > Len(as) \/ Raised(c) THEN c
    ELSE derive_loop(
            fine_tune_path_loss_factor(
                perform_trilateration(calculate_data(c, as[i]), as[i]), as[i]),
            as, i + 1)

derive_devices(c) == derive_loop(c, SortedAddrs(DOMAIN c.devices), 1)

(***************************************************************************)
(* The update cycle _async_update_data, step by step.  A task of the event *)
(* loop is [pc, origin]: the step it runs next and the trigger that        *)
(* scheduled it.                                                           *)
(***************************************************************************)
Steps == <<"ingest", "configured", "derive", "areas", "scanners", "metadevices",
           "notify", "prune", "stamp">>
\* a cycle that went from its derive step past the area assignment
StepIndex_Mutant(pc) ==
    CHOOSE i \in 1..Len(Steps) : Steps[i] = (IF pc = "derive" THEN "areas" ELSE pc)

\* the place of a step in the body of _async_update_data
StepIndex(pc) == CHOOSE i \in 1..Len(Steps) : Steps[i] = pc

\* a cycle that awaited after its ingest would hand the event loop over
AwaitsAfter_Mutant(pc) == pc = "ingest"

\* the await expressions of _async_update_data: there is none, so the
\* coroutine never hands the event loop to another task before it ends
AwaitsAfter(pc) == FALSE

\* lines 482-484
refresh_scanners_if_needed(c) ==
    IF c.do_full_scanner_init THEN refresh_scanners(c, {}) ELSE c

\* a cycle that stopped notifying once the sensor was reported
SignalsUntilSensor_Mutant(c) ==
    { a \in DOMAIN c.devices :
        c.devices[a].create_sensor /\ ~c.devices[a].create_sensor_done }

\* lines 488-492: the addresses SIGNAL_DEVICE_NEW is sent for
DeviceNewSignals(c) ==
    { a \in DOMAIN c.devices :
        /\ c.devices[a].create_sensor
        /\ (~c.devices[a].create_sensor_done \/ ~c.devices[a].create_tracker_done) }

\* a cycle that pruned again as soon as PRUNE_TIME_INTERVAL had elapsed
PrunesAtInterval_Mutant(c, t) ==
    IF c.stamp_last_prune <= t - PRUNE_TIME_INTERVAL
    THEN [prune_devices(c, t) EXCEPT !.stamp_last_prune = t]
    ELSE c

\* lines 494-496
prune_if_due(c, t) ==
    IF c.stamp_last_prune < t - PRUNE_TIME_INTERVAL
    THEN [prune_devices(c, t) EXCEPT !.stamp_last_prune = t]
    ELSE c

\* lines 498-499; the cycle ends here and with it what prune_devices held
stamp_update(c, t) ==
    [c EXCEPT !.stamp_last_update = t, !.prune_list = {}, !.prune_quota = 0]

\* the coordinator after one step of the cycle at time t
RunStep(c, pc, cache, pbs, t) ==
    CASE pc = "ingest"      -> ingest([c EXCEPT !.exc = None], cache)
      [] pc = "configured"  -> create_configured_devices(c)
      [] pc = "derive"      -> derive_devices(c)
      [] pc = "areas"       -> refresh_areas_by_min_distance(c)
      [] pc = "scanners"    -> refresh_scanners_if_needed(c)
      [] pc = "metadevices" -> update_metadevices(c, pbs)
      [] pc = "notify"      -> [c EXCEPT !.signals = DeviceNewSignals(c)]
      [] pc = "prune"       -> prune_if_due(c, t)
      [] pc = "stamp"       -> stamp_update(c, t)

RemoveAt(l, i) == [j \in 1..(Len(l) - 1) |-> IF j < i THEN l[j] ELSE l[j + 1]]

\* hass.add_job(coroutine): the coroutine is queued on the event loop
AddJob(ts, origin) == Append(ts, [pc |-> "ingest", origin |-> origin])

\* The event loop runs task i for one step.  A task that has not begun starts
\* only when the loop is executing nothing; a task that raises, or that has
\* run its last step, ends.
CycleStep(i, pc) ==
    /\ i \in 1..Len(tasks)
    /\ tasks[i].pc = pc
    /\ running \in {0, i}
    /\ pc = "ingest" => \A j \in 1..(i - 1) : tasks[j].pc # "ingest"
    /\ LET c == RunStep(coord, pc, adverts, pb_state, now) IN
       /\ coord' = c
       /\ IF Raised(c) \/ pc = "stamp"
          THEN /\ tasks' = RemoveAt(tasks, i)
               /\ running' = 0
          ELSE /\ tasks' = [tasks EXCEPT ![i].pc = Steps[StepIndex(pc) + 1]]
               /\ running' = IF AwaitsAfter(pc) THEN 0 ELSE i
    /\ UNCHANGED <<now, adverts, pb_state, call>>

Ingest       == \E i \in 1..MaxTasks : CycleStep(i, "ingest")
Configured   == \E i \in 1..MaxTasks : CycleStep(i, "configured")
Derive       == \E i \in 1..MaxTasks : CycleStep(i, "derive")
Areas        == \E i \in 1..MaxTasks : CycleStep(i, "areas")
RefreshScanners == \E i \in 1..MaxTasks : CycleStep(i, "scanners")
UpdateMetadevices == \E i \in 1..MaxTasks : CycleStep(i, "metadevices")
Notify       == \E i \in 1..MaxTasks : CycleStep(i, "notify")
Prune        == \E i \in 1..MaxTasks : CycleStep(i, "prune")
Stamp        == \E i \in 1..MaxTasks : CycleStep(i, "stamp")

(***************************************************************************)
(* Callbacks.  The event loop runs a callback only when it is executing    *)
(* nothing else (running = 0).                                             *)
(***************************************************************************)
\* async_handle_advert: the coordinator's part of an advertisement's arrival
async_handle_advert(ts, c, t) ==
    IF c.stamp_last_update < t - (UPDATE_INTERVAL * 2) THEN AddJob(ts, "advert") ELSE ts

\* The bluetooth integration caches an advertisement and calls the
\* coordinator's callback.  adv is [address, info, heard_by]; every scanner
\* that hears it stamps it with the current time.
AdvertArrives(adv, max_tasks) ==
    /\ running = 0
    /\ Len(tasks) < max_tasks
    /\ adverts' = Put(adverts, adv.address,
                      [adv.info EXCEPT !.scanners =
                          [i \in 1..Len(adv.heard_by) |->
                              [source |-> adv.heard_by[i].source,
                               rssi   |-> adv.heard_by[i].rssi,
                               time   |-> now]]])
    /\ tasks' = async_handle_advert(tasks, coord, now)
    /\ UNCHANGED <<coord, now, pb_state, running, call>>

\* the bluetooth integration drops an advertisement from its cache
AdvertExpires(a) ==
    /\ running = 0
    /\ a \in DOMAIN adverts
    /\ adverts' = Drop(adverts, {a})
    /\ UNCHANGED <<coord, now, pb_state, tasks, running, call>>

\* handle_devreg_changes
handle_devreg_changes(max_tasks) ==
    /\ running = 0
    /\ Len(tasks) < max_tasks
    /\ coord' = [coord EXCEPT !.do_full_scanner_init = TRUE,
                              !.do_private_device_init = TRUE]
    /\ tasks' = AddJob(tasks, "devreg")
    /\ UNCHANGED <<now, adverts, pb_state, running, call>>

\* The Private BLE Device integration resolves a new current address for its
\* tracker entity and fires EVENT_STATE_CHANGED: handle_state_changes
handle_state_changes(ent, new_address, max_tasks) ==
    /\ running = 0
    /\ Len(tasks) < max_tasks
    /\ pb_state[ent] # Some(new_address)
    /\ \A m \in DOMAIN coord.devices :
          Len(coord.devices[m].beacon_sources) < MaxSources
    /\ pb_state' = [pb_state EXCEPT ![ent] = Some(new_address)]
    /\ IF ent \in DOMAIN coord.pb_state_sources
          /\ Some(format_mac_lower(new_address)) # coord.pb_state_sources[ent]
       THEN /\ coord' = [coord EXCEPT
                           !.pb_state_sources[ent] = Some(format_mac_lower(new_address)),
                           !.do_private_device_init = TRUE]
            /\ tasks' = AddJob(tasks, "state")
       ELSE UNCHANGED <<coord, tasks>>
    /\ UNCHANGED <<now, adverts, running, call>>

\* sensor_created(address): the coordinator after the call
sensor_created(c, address) ==
    IF address \in DOMAIN c.devices
    THEN [c EXCEPT !.devices[address].create_sensor_done = TRUE]
    ELSE c

\* device_tracker_created(address): the coordinator after the call
device_tracker_created(c, address) ==
    IF address \in DOMAIN c.devices
    THEN [c EXCEPT !.devices[address].create_tracker_done = TRUE]
    ELSE c

\* the sensor platform reports that it has set up the sensors of address
SensorCreated(address) ==
    /\ running = 0
    /\ coord' = sensor_created(coord, address)
    /\ coord' # coord \/ address \notin DOMAIN coord.devices
    /\ UNCHANGED <<now, adverts, pb_state, tasks, running, call>>

\* the device_tracker platform reports that it has set up its entity
DeviceTrackerCreated(address) ==
    /\ running = 0
    /\ coord' = device_tracker_created(coord, address)
    /\ coord' # coord \/ address \notin DOMAIN coord.devices
    /\ UNCHANGED <<now, adverts, pb_state, tasks, running, call>>

\* the DataUpdateCoordinator's timer (update_interval = UPDATE_INTERVAL)
\* schedules a refresh
periodic_refresh(max_tasks) ==
    /\ running = 0
    /\ Len(tasks) < max_tasks
    /\ tasks' = AddJob(tasks, "timer")
    /\ UNCHANGED <<coord, now, adverts, pb_state, running, call>>

\* time passes
Tick(max_time) ==
    /\ running = 0
    /\ now < max_time
    /\ now' = now + 1
    /\ UNCHANGED <<coord, adverts, pb_state, tasks, running, call>>

(***************************************************************************)
(* The installation: configuration entry, site survey, initial state       *)
(***************************************************************************)
\* the options of the configuration entry and what the installation provides
\* besides: the surveyed positions and how a position is represented
Options(site) ==
    [ max_radius   |-> RInt(20),
      enable_trilateration |-> TRUE,
      ref_power    |-> -59,
      attenuation  |-> 2,
      rssi_offsets |-> <<>>,
      devices      |-> {"M1"},
      positions    |-> IF site = "surveyed"
                       THEN [a \in Macs \cup Scanners \cup FarScanners |->
                               CASE a = "s1" -> <<0, 0>> [] a = "s2" -> <<2, 0>>
                                 [] a = "s3" -> <<0, 2>> [] a = "s4" -> <<2, 2>>
                                 [] a = "m1" -> <<1, 0>> [] a = "m2" -> <<0, 1>>
                                 [] OTHER -> <<1, 1>>]
                       ELSE <<>>,
      position_kind |-> "tuple" ]

\* the obstruction map the installation provides: none, or two samples
ObstructionMap(site) ==
    IF site = "surveyed"
    THEN << [x |-> 0, y |-> 0, v |-> 5], [x |-> 2, y |-> 0, v |-> 7] >>
    ELSE <<>>

\* __init__: the coordinator of an installation
NewCoordinator(site) ==
    [ devices      |-> <<>>,
      metadevices  |-> {},
      pb_state_sources |-> <<>>,
      scanner_list |-> {},
      options      |-> Options(site),
      stamp_last_update |-> 0,
      stamp_last_prune  |-> 0,
      path_loss_factors |-> <<>>,
      obstruction_map   |-> ObstructionMap(site),
      fixed_beacons     |-> <<>>,
      do_full_scanner_init   |-> TRUE,
      do_private_device_init |-> TRUE,
      signals      |-> {},
      prune_list   |-> {},      \* the prune_list of the last prune_devices
      prune_quota  |-> 0,       \* and its prune_quota
      exc          |-> None ]

Sites == {"bare", "surveyed"}

NoInfo ==
    [ manufacturer_data |-> <<>>, name |-> None, local_name |-> None,
      manufacturer |-> None, connectable |-> FALSE, scanners |-> <<>> ]

\* the advertisements that arrive in the model
AdvertChoices ==
    { [address |-> "m1",
       info |-> [NoInfo EXCEPT
                   !.manufacturer_data = <<[company_code |-> 76, man_data |-> "ibeacon_b1"]>>,
                   !.name = Some("Tag one")],
       heard_by |-> <<[source |-> "s1", rssi |-> -59]>>],
      [address |-> "m2",
       info |-> [NoInfo EXCEPT
                   !.manufacturer_data = <<[company_code |-> 76, man_data |-> "ibeacon_b1"]>>,
                   !.name = Some("Tag two")],
       heard_by |-> <<>>],
      [address |-> "m2",
       info |-> [NoInfo EXCEPT
                   !.manufacturer_data = <<[company_code |-> 76, man_data |-> "ibeacon_short"]>>],
       heard_by |-> <<>>],
      [address |-> "r1", info |-> NoInfo,
       heard_by |-> <<[source |-> "s2", rssi |-> -79]>>] }

InitOf(sites) ==
    /\ coord \in { NewCoordinator(site) : site \in sites }
    /\ now = StartTime
    /\ adverts = <<>>
    /\ pb_state = [ent \in {"pb1"} |-> None]
    /\ tasks = <<>>
    /\ running = 0
    /\ call = None

(***************************************************************************)
(* Spec: the whole coordinator on a small installation, updates triggered  *)
(* one at a time                                                           *)
(***************************************************************************)
Init == InitOf(Sites)

Next ==
    \/ \E adv \in AdvertChoices : AdvertArrives(adv, 1)
    \/ \E new_address \in PrivateMacs : handle_state_changes("pb1", new_address, 1)
    \/ periodic_refresh(1)
    \/ Tick(MaxTime)
    \/ Ingest
    \/ Configured
    \/ Derive
    \/ Areas
    \/ RefreshScanners
    \/ UpdateMetadevices
    \/ Notify
    \/ Prune
    \/ Stamp

Spec == Init /\ [][Next]_vars

(***************************************************************************)
(* SpecSched: the triggers and the event loop, with a queue of up to       *)
(* MaxTasks updates, on one advertising device that no scanner hears       *)
(***************************************************************************)
SchedAdvert == [address |-> "r1", info |-> NoInfo, heard_by |-> <<>>]

InitSched == InitOf({"surveyed"})

NextSched ==
    \/ AdvertArrives(SchedAdvert, MaxTasks)
    \/ handle_devreg_changes(MaxTasks)
    \/ \E new_address \in {"r1"} : handle_state_changes("pb1", new_address, MaxTasks)
    \/ periodic_refresh(MaxTasks)
    \/ Tick(MaxTime)
    \/ Ingest
    \/ Configured
    \/ Derive
    \/ Areas
    \/ RefreshScanners
    \/ UpdateMetadevices
    \/ Notify
    \/ Prune
    \/ Stamp

SpecSched == InitSched /\ [][NextSched]_vars

(***************************************************************************)
(* SpecMeta: metadevices on the surveyed installation: a tag that sends an *)
(* iBeacon and a Private BLE device whose resolvable address rotates       *)
(* between two addresses, each heard by its own scanner                    *)
(***************************************************************************)
TagOne ==
    [address |-> "m1",
     info |-> [NoInfo EXCEPT
                 !.manufacturer_data = <<[company_code |-> 76, man_data |-> "ibeacon_b1"]>>,
                 !.name = Some("Tag one")],
     heard_by |-> <<[source |-> "s1", rssi |-> -59]>>]

TagTwo ==
    [address |-> "m2",
     info |-> [NoInfo EXCEPT
                 !.manufacturer_data = <<[company_code |-> 76, man_data |-> "ibeacon_b1"]>>,
                 !.name = Some("Tag two")],
     heard_by |-> <<[source |-> "s2", rssi |-> -79]>>]

MetaAdverts ==
    { TagOne,
      [address |-> "r1", info |-> NoInfo,
       heard_by |-> <<[source |-> "s2", rssi |-> -79]>>],
      [address |-> "r2", info |-> NoInfo,
       heard_by |-> <<[source |-> "s1", rssi |-> -59]>>] }

InitMeta == InitOf({"surveyed"})

NextMeta ==
    \/ \E adv \in MetaAdverts : AdvertArrives(adv, 1)
    \/ \E new_address \in PrivateMacs : handle_state_changes("pb1", new_address, 1)
    \/ periodic_refresh(1)
    \/ Tick(MaxTime)
    \/ Ingest
    \/ Configured
    \/ Derive
    \/ Areas
    \/ RefreshScanners
    \/ UpdateMetadevices
    \/ Notify
    \/ Prune
    \/ Stamp

SpecMeta == InitMeta /\ [][NextMeta]_vars

(***************************************************************************)
(* SpecTags: two tags that send the same iBeacon, each heard by its own    *)
(* scanner, on the surveyed installation                                   *)
(***************************************************************************)
TagAdverts == { TagOne, TagTwo }

InitTags == InitOf({"surveyed"})

NextTags ==
    \/ \E adv \in TagAdverts : AdvertArrives(adv, 1)
    \/ periodic_refresh(1)
    \/ Tick(MaxTime)
    \/ Ingest
    \/ Configured
    \/ Derive
    \/ Areas
    \/ RefreshScanners
    \/ UpdateMetadevices
    \/ Notify
    \/ Prune
    \/ Stamp

SpecTags == InitTags /\ [][NextTags]_vars

(***************************************************************************)
(* SpecPrune: update cycles on an installation that has been running: the  *)
(* device table holds scanners s1 and s2 (s2 is heard by s1), tags and     *)
(* phones last heard at various times, and possibly the iBeacon metadevice *)
(* of the tags                                                             *)
(***************************************************************************)
\* the coordinator after address a was last heard, by scanner s1, at time t
\* (t = 0: the device has a record and was never heard)
HeardAt(c, a, t) ==
    LET c1 == get_or_create_device(c, a)
        discovered == [source |-> "s1", rssi |-> -59, time |-> t]
    IN IF t = 0 THEN c1 ELSE ingest_scanner(c1, a, <<discovered>>, discovered)

\* the same when the address may have no record at all (t = -1)
MaybeHeardAt(c, a, t) == IF t = -1 THEN c ELSE HeardAt(c, a, t)

\* the coordinator with metadevice b1 tracked with the given sources, each of
\* which is an iBeacon source with a record
WithBeaconSources(c, sources) ==
    IF Len(sources) = 0 THEN c
    ELSE
      LET c1 == get_or_create_device(c, "b1") IN
      [c1 EXCEPT
         !.metadevices = @ \cup {"b1"},
         !.devices = [a \in DOMAIN @ |->
                        IF a = "b1" THEN [@[a] EXCEPT !.beacon_sources = sources,
                                                      !.beacon_unique_id = Some("b1")]
                        ELSE IF InList(sources, a)
                        THEN [@[a] EXCEPT !.beacon_type = {BEACON_IBEACON_SOURCE},
                                          !.beacon_unique_id = Some("b1")]
                        ELSE @[a]]]

\* the installation after its start-up: rosters read, no update since time 1
RunningCoordinator ==
    LET c0 == [NewCoordinator("surveyed") EXCEPT
                 !.do_private_device_init = FALSE,
                 !.do_full_scanner_init = TRUE,
                 !.scanner_list = Scanners,
                 !.stamp_last_update = 1,
                 !.stamp_last_prune = 1]
    IN HeardAt(refresh_scanners(c0, {}), "s2", 1)

\* the device tables of the model: m1 has a record (it is configured) with
\* or without its sensor, m2, r1 and r2 may have none
PruneTables ==
    { WithBeaconSources(
        MaybeHeardAt(
          MaybeHeardAt(
            MaybeHeardAt(
              [HeardAt(RunningCoordinator, "m1", t1) EXCEPT
                  !.devices["m1"].create_sensor = cs],
              "m2", t2),
            "r1", t3),
          "r2", t4),
        sources) :
        t1 \in 0..StartTime, cs \in BOOLEAN, t2 \in -1..StartTime,
        t3 \in -1..StartTime, t4 \in {-1, StartTime - 1},
        sources \in {<<>>, <<"m1">>, <<"m2", "m1">>} }

InitPrune ==
    /\ coord \in { c \in PruneTables :
                      \A m \in c.metadevices : HasDevice(c, c.devices[m].beacon_sources[1]) }
    /\ now = StartTime
    /\ adverts = <<>>
    /\ pb_state = [ent \in {"pb1"} |-> None]
    /\ tasks = <<>>
    /\ running = 0
    /\ call = None

NextPrune ==
    \/ periodic_refresh(1)
    \/ Tick(MaxTime)
    \/ Ingest
    \/ Configured
    \/ Derive
    \/ Areas
    \/ RefreshScanners
    \/ UpdateMetadevices
    \/ Notify
    \/ Prune
    \/ Stamp

SpecPrune == InitPrune /\ [][NextPrune]_vars

(***************************************************************************)
(* SpecSurvey: an installation of four proxies with surveyed positions;    *)
(* a tag and the proxies themselves advertise.  bermuda_device.py is not   *)
(* part of the sources at hand, so a position is either representation the *)
(* code reads: a tuple (coordinator.py:270) or a numpy array               *)
(* (trilateration.py:18)                                                   *)
(***************************************************************************)
HeardBy(sources) == [i \in 1..Len(sources) |-> [source |-> sources[i], rssi |-> -59]]

SurveyAdverts ==
    { [address |-> "m1", info |-> [NoInfo EXCEPT !.name = Some("Tag one")],
       heard_by |-> HeardBy(<<"s1", "s2", "s3">>)],
      [address |-> "m1", info |-> [NoInfo EXCEPT !.name = Some("Tag one")],
       heard_by |-> HeardBy(<<"s1", "s2">>)],
      [address |-> "s1", info |-> NoInfo,
       heard_by |-> HeardBy(<<"s2", "s3", "s4">>)],
      [address |-> "s2", info |-> NoInfo,
       heard_by |-> HeardBy(<<"s1", "s3">>)] }

InitSurvey ==
    /\ coord \in { [NewCoordinator("surveyed") EXCEPT !.options.position_kind = kind] :
                      kind \in {"tuple", "array"} }
    /\ now = StartTime
    /\ adverts = <<>>
    /\ pb_state = [ent \in {"pb1"} |-> None]
    /\ tasks = <<>>
    /\ running = 0
    /\ call = None

NextSurvey ==
    \/ \E adv \in SurveyAdverts : AdvertArrives(adv, 1)
    \/ periodic_refresh(1)
    \/ Tick(MaxTime)
    \/ Ingest
    \/ Configured
    \/ Derive
    \/ Areas
    \/ RefreshScanners
    \/ UpdateMetadevices
    \/ Notify
    \/ Prune
    \/ Stamp

SpecSurvey == InitSurvey /\ [][NextSurvey]_vars

(***************************************************************************)
(* SpecLocate: the four proxies hear one another.  The installations differ *)
(* in what the cycle finds: positions as tuples or as arrays, an           *)
(* obstruction map with samples or the empty one of __init__               *)
(* (coordinator.py:109), trilateration enabled or not                      *)
(***************************************************************************)
LocateAdverts ==
    { [address |-> "s1", info |-> NoInfo,
       heard_by |-> HeardBy(<<"s2", "s3", "s4">>)],
      [address |-> "s2", info |-> NoInfo,
       heard_by |-> HeardBy(<<"s1", "s3">>)] }

LocateInstallations ==
    { [NewCoordinator("surveyed") EXCEPT !.options.position_kind = "tuple"],
      [NewCoordinator("surveyed") EXCEPT !.options.position_kind = "array"],
      [NewCoordinator("surveyed") EXCEPT !.options.position_kind = "array",
                                         !.obstruction_map = ObstructionMap("bare")],
      [NewCoordinator("surveyed") EXCEPT !.options.position_kind = "array",
                                         !.options.enable_trilateration = FALSE] }

InitLocate ==
    /\ coord \in LocateInstallations
    /\ now = StartTime
    /\ adverts = <<>>
    /\ pb_state = [ent \in {"pb1"} |-> None]
    /\ tasks = <<>>
    /\ running = 0
    /\ call = None

NextLocate ==
    \/ \E adv \in LocateAdverts : AdvertArrives(adv, 1)
    \/ periodic_refresh(1)
    \/ Tick(MaxTime)
    \/ Ingest
    \/ Configured
    \/ Derive
    \/ Areas
    \/ RefreshScanners
    \/ UpdateMetadevices
    \/ Notify
    \/ Prune
    \/ Stamp

SpecLocate == InitLocate /\ [][NextLocate]_vars

(***************************************************************************)
(* SpecTune: the surveyed installation with tag m1 listed as a fixed       *)
(* beacon (fixed_beacons, coordinator.py:111, is an attribute the          *)
(* integration fills from its configuration; the sources at hand only      *)
(* create it).  Proxy s1 hears the beacon m1 and the tag m2, each one metre *)
(* from it, at differing signal strengths                                   *)
(***************************************************************************)
TuneAdverts ==
    { [address |-> a, info |-> NoInfo,
       heard_by |-> <<[source |-> "s1", rssi |-> rssi]>>] :
          a \in {"m1", "m2"}, rssi \in {-59, -79, -39} }
    \cup
    \* x1 is a scanner the device registry does not know
    { [address |-> "m2", info |-> NoInfo,
       heard_by |-> <<[source |-> "x1", rssi |-> -59], [source |-> "s1", rssi |-> -79]>>],
      [address |-> "m2", info |-> NoInfo,
       heard_by |-> <<[source |-> "x1", rssi |-> -59]>>] }

InitTune ==
    /\ coord = [NewCoordinator("surveyed") EXCEPT !.options.position_kind = "array",
                                                 !.fixed_beacons = <<"m1">>]
    /\ now = StartTime
    /\ adverts = <<>>
    /\ pb_state = [ent \in {"pb1"} |-> None]
    /\ tasks = <<>>
    /\ running = 0
    /\ call = None

NextTune ==
    \/ \E adv \in TuneAdverts : AdvertArrives(adv, 1)
    \/ Tick(MaxTime)
    \/ Ingest
    \/ Configured
    \/ Derive
    \/ Areas
    \/ RefreshScanners
    \/ UpdateMetadevices
    \/ Notify
    \/ Prune
    \/ Stamp

SpecTune == InitTune /\ [][NextTune]_vars

(***************************************************************************)
(* SpecAreas: the installation of four proxies between two cycles.  Init   *)
(* draws the contacts of tag m1 (which proxies have reported it, in which  *)
(* order, at which distance); m1 has its sensor and an area from an       *)
(* earlier cycle                                                           *)
(***************************************************************************)
\* the distances of a contact: no sample yet, inside max_radius, at it
AreaDistances == { None, Some(RInt(1)), Some(RInt(2)), Some(RInt(20)) }

\* the contact of proxy s with a device, as update_scanner creates it
AreaContact(s, rssi_distance) ==
    [ scanner  |-> s,
      name     |-> DeviceRegistry[s].name,
      area_id  |-> DeviceRegistry[s].area_id,
      rssi     |-> Some(-60 - AddrRank(s)),
      rssi_distance |-> rssi_distance,
      stamp    |-> Some(1) ]

\* the installation after its start-up with all four proxies in the roster
SurveyedCoordinator ==
    refresh_scanners([NewCoordinator("surveyed") EXCEPT
                         !.do_private_device_init = FALSE,
                         !.do_full_scanner_init = TRUE,
                         !.scanner_list = Scanners \cup FarScanners,
                         !.stamp_last_update = 1,
                         !.stamp_last_prune = 1], {})

\* device.scanners of m1: the proxies of order that have a contact
AreaContacts(order, dist) ==
    LET heard == SelectSeq(order, LAMBDA s : s \in DOMAIN dist)
    IN [i \in 1..Len(heard) |-> AreaContact(heard[i], dist[heard[i]])]

AreaTables ==
    { LET c == get_or_create_device(SurveyedCoordinator, "m1") IN
      [c EXCEPT !.devices["m1"].create_sensor = TRUE,
                !.devices["m1"].last_seen = 1,
                !.devices["m1"].scanners = AreaContacts(order, dist),
                !.devices["m1"].area_id = Some("area3"),
                !.devices["m1"].area_name = Some("Study"),
                !.devices["m1"].area_distance = Some(RInt(2)),
                !.devices["m1"].area_rssi = Some(-69),
                !.devices["m1"].area_scanner = Some("Proxy s3")] :
        order \in { <<"s1", "s2", "s4">>, <<"s4", "s2", "s1">> },
        dist \in UNION { [heard -> AreaDistances] : heard \in SUBSET {"s1", "s2", "s4"} } }

InitAreas ==
    /\ coord \in AreaTables
    /\ now = StartTime
    /\ adverts = <<>>
    /\ pb_state = [ent \in {"pb1"} |-> None]
    /\ tasks = <<>>
    /\ running = 0
    /\ call = None

NextAreas ==
    \/ periodic_refresh(1)
    \/ Tick(MaxTime)
    \/ Ingest
    \/ Configured
    \/ Derive
    \/ Areas
    \/ RefreshScanners
    \/ UpdateMetadevices
    \/ Notify
    \/ Prune
    \/ Stamp

SpecAreas == InitAreas /\ [][NextAreas]_vars

(***************************************************************************)
(* SpecSolve: trilaterate called on its own.  Init draws the positions     *)
(* (none to MaxPositions of them), how they are represented, and the point *)
(* the distances are measured from                                         *)
(***************************************************************************)
SolvePositions == {0, 5, 10} \X {0, 5, 10}
SolvePoints == { <<3, 4>>, <<0, 0>>, <<7, 2>> }

\* the exact Euclidean distances from point to the positions
ExactDistances(positions, point) ==
    [i \in 1..Len(positions) |->
        hypot(positions[i][1] - point[1], positions[i][2] - point[2])]

InitSolve ==
    /\ coord = NewCoordinator("bare")
    /\ now = StartTime
    /\ adverts = <<>>
    /\ pb_state = [ent \in {"pb1"} |-> None]
    /\ tasks = <<>>
    /\ running = 0
    /\ call \in { [ fn        |-> "trilaterate",
                     positions |-> positions,
                     distances |-> ExactDistances(positions, point),
                     kind      |-> kind,
                     point     |-> point,
                     done      |-> FALSE,
                     ret       |-> [raised |-> FALSE, value |-> None] ] :
                     positions \in UNION { [1..n -> SolvePositions] : n \in 0..MaxPositions },
                     point \in SolvePoints,
                     kind \in {"tuple", "array"} }

\* the call returns, or raises
Trilaterate ==
    /\ call # None
    /\ call.fn = "trilaterate"
    /\ ~call.done
    /\ call' = [call EXCEPT !.done = TRUE,
                            !.ret = trilaterate(call.positions, call.distances, call.kind)]
    /\ UNCHANGED <<coord, now, adverts, pb_state, tasks, running>>

NextSolve == Trilaterate

SpecSolve == InitSolve /\ [][NextSolve]_vars

(***************************************************************************)
(* SpecCalls: the functions of the distance model called on their own, one *)
(* after the other, on a new coordinator.  call holds the last call: its   *)
(* arguments, what it returned, how many calls there were and the links    *)
(* update_path_loss_factor was called for before it                        *)
(***************************************************************************)
CallLinks == { PathKey(d, sc) : d \in {"m1", "m2"}, sc \in Scanners }
CallLosses == { RInt(-1), RInt(1), Rat(5, 2) }
CallRssis == { -99, -79, -59, -39, -19 }

\* the calibrations of the installations: reference power and attenuation
CallCalibrations == { <<-59, 2>>, <<-79, 2>>, <<-59, 1>> }

InitCalls ==
    /\ coord \in { [NewCoordinator("bare") EXCEPT !.options.ref_power = cal[1],
                                                  !.options.attenuation = cal[2]] :
                      cal \in CallCalibrations }
    /\ now = StartTime
    /\ adverts = <<>>
    /\ pb_state = [ent \in {"pb1"} |-> None]
    /\ tasks = <<>>
    /\ running = 0
    /\ call = [ fn |-> "none", path_key |-> PathKey("m1", "s1"),
                measured_loss |-> RInt(0), rssi |-> 0, ret |-> RInt(0),
                count |-> 0, updated |-> {} ]

\* calculate_path_loss_factor(device, scanner)
CalculatePathLossFactor(path_key) ==
    /\ call.count < MaxCalls
    /\ coord' = calculate_path_loss_factor(coord, path_key)
    /\ call' = [call EXCEPT !.fn = "calculate_path_loss_factor",
                            !.path_key = path_key,
                            !.ret = coord'.path_loss_factors[path_key],
                            !.count = @ + 1,
                            !.updated = IF call.fn = "update_path_loss_factor"
                                        THEN @ \cup {call.path_key} ELSE @]
    /\ UNCHANGED <<now, adverts, pb_state, tasks, running>>

\* update_path_loss_factor(device, scanner, measured_loss)
UpdatePathLossFactor(path_key, measured_loss) ==
    /\ call.count < MaxCalls
    /\ coord' = update_path_loss_factor(coord, path_key, measured_loss)
    /\ call' = [call EXCEPT !.fn = "update_path_loss_factor",
                            !.path_key = path_key,
                            !.measured_loss = measured_loss,
                            !.count = @ + 1,
                            !.updated = IF call.fn = "update_path_loss_factor"
                                        THEN @ \cup {call.path_key} ELSE @]
    /\ UNCHANGED <<now, adverts, pb_state, tasks, running>>

\* calculate_distance_from_rssi(rssi)
CalculateDistanceFromRssi(rssi) ==
    /\ call.count < MaxCalls
    /\ call' = [call EXCEPT !.fn = "calculate_distance_from_rssi",
                            !.rssi = rssi,
                            !.ret = calculate_distance_from_rssi(rssi),
                            !.count = @ + 1,
                            !.updated = IF call.fn = "update_path_loss_factor"
                                        THEN @ \cup {call.path_key} ELSE @]
    /\ UNCHANGED <<coord, now, adverts, pb_state, tasks, running>>

NextCalls ==
    \/ \E path_key \in CallLinks : CalculatePathLossFactor(path_key)
    \/ \E path_key \in CallLinks, measured_loss \in CallLosses :
          UpdatePathLossFactor(path_key, measured_loss)
    \/ \E rssi \in CallRssis : CalculateDistanceFromRssi(rssi)

SpecCalls == InitCalls /\ [][NextCalls]_vars

(***************************************************************************)
(* SpecBeacon: advertisements with manufacturer data that no scanner of    *)
(* the roster reports: an iBeacon of Apple's company code, a payload with  *)
(* the iBeacon prefix that ends after five bytes, another Apple payload,   *)
(* and the iBeacon payload under another company code                      *)
(***************************************************************************)
BeaconAdverts ==
    { [address |-> "m1", heard_by |-> <<>>,
       info |-> [NoInfo EXCEPT
                   !.manufacturer_data = <<[company_code |-> 76, man_data |-> "ibeacon_b1"]>>]],
      [address |-> "m2", heard_by |-> <<>>,
       info |-> [NoInfo EXCEPT
                   !.manufacturer_data = <<[company_code |-> 76, man_data |-> "ibeacon_short"]>>]],
      [address |-> "m2", heard_by |-> <<>>,
       info |-> [NoInfo EXCEPT
                   !.manufacturer_data = <<[company_code |-> 76, man_data |-> "apple_other"]>>]],
      [address |-> "r1", heard_by |-> <<>>,
       info |-> [NoInfo EXCEPT
                   !.manufacturer_data = <<[company_code |-> 6, man_data |-> "ibeacon_b1"]>>]] }

InitBeacon == InitOf({"surveyed"})

NextBeacon ==
    \/ \E adv \in BeaconAdverts : AdvertArrives(adv, 1)
    \/ Tick(MaxTime)
    \/ Ingest
    \/ Configured
    \/ Derive
    \/ Areas
    \/ RefreshScanners
    \/ UpdateMetadevices
    \/ Notify
    \/ Prune
    \/ Stamp

SpecBeacon == InitBeacon /\ [][NextBeacon]_vars

(***************************************************************************)
(* SpecNotify: the surveyed installation with its Private BLE device, the  *)
(* timer, and the two platforms that report back what they have set up     *)
(***************************************************************************)
ReportedAddresses == {"k1", "m1", "r2"}

InitNotify == InitOf({"surveyed"})

NextNotify ==
    \/ periodic_refresh(1)
    \/ \E address \in ReportedAddresses : SensorCreated(address)
    \/ \E address \in ReportedAddresses : DeviceTrackerCreated(address)
    \/ Tick(MaxTime)
    \/ Ingest
    \/ Configured
    \/ Derive
    \/ Areas
    \/ RefreshScanners
    \/ UpdateMetadevices
    \/ Notify
    \/ Prune
    \/ Stamp

SpecNotify == InitNotify /\ [][NextNotify]_vars

(***************************************************************************)
(* SpecField: get_field_strength_estimate called on its own.  Init draws   *)
(* the obstruction map, up to three samples on distinct grid points in any *)
(* insertion order; the action draws the query point, in half units        *)
(***************************************************************************)
FieldPoints == (0..2) \X (0..1)

\* the field strength the survey measured at a grid point
FieldValue(pt) == 3 * pt[2] + pt[1] + 1

FieldMaps ==
    { [i \in 1..Len(pts) |-> [x |-> pts[i][1], y |-> pts[i][2], v |-> FieldValue(pts[i])]] :
        pts \in { q \in UNION { [1..n -> FieldPoints] : n \in 1..3 } :
                    \A i, j \in DOMAIN q : i # j => q[i] # q[j] } }

InitField ==
    /\ coord \in { [NewCoordinator("bare") EXCEPT !.obstruction_map = map] :
                      map \in FieldMaps }
    /\ now = StartTime
    /\ adverts = <<>>
    /\ pb_state = [ent \in {"pb1"} |-> None]
    /\ tasks = <<>>
    /\ running = 0
    /\ call = [ fn |-> "none", qx2 |-> 0, qy2 |-> 0, ret |-> 0 ]

\* get_field_strength_estimate(qx2 / 2, qy2 / 2)
GetFieldStrengthEstimate(qx2, qy2) ==
    /\ call.fn = "none"
    /\ call' = [ fn |-> "get_field_strength_estimate", qx2 |-> qx2, qy2 |-> qy2,
                 ret |-> get_field_strength_estimate(coord.obstruction_map, qx2, qy2) ]
    /\ UNCHANGED <<coord, now, adverts, pb_state, tasks, running>>

NextField ==
    \E qx2 \in 0..4, qy2 \in 0..2 : GetFieldStrengthEstimate(qx2, qy2)

SpecField == InitField /\ [][NextField]_vars

(***************************************************************************)
(* Claims                                                                  *)
(***************************************************************************)
\* C1: an update cycle never raises past its own boundary: no cycle is ended
\* by an exception of one device's processing (a missing position, an empty
\* obstruction map, a zero beacon distance, a truncated iBeacon payload);
\* every cycle ends with its last step, the refresh of stamp_last_update.
C1_CycleNeverRaises == coord.exc = None

\* the updates that advertisement callbacks have scheduled and that have not begun
PendingAdvertUpdates ==
    { i \in 1..Len(tasks) : tasks[i].origin = "advert" /\ tasks[i].pc = "ingest" }

\* C2: a burst of advertisement callbacks collapses into a single update: of
\* the advertisements that arrive before the update they trigger has run, at
\* most one schedules an update cycle.
C2_BurstCollapses == Cardinality(PendingAdvertUpdates) <= 1

\* the update cycles in flight: begun and not ended
InFlight == { i \in 1..Len(tasks) : tasks[i].pc # "ingest" }

\* C3: at most one update cycle is in flight at any time; an update that a
\* trigger has scheduled while a cycle is running waits (it has not begun)
\* until that cycle has ended.
C3_OneCycleInFlight ==
    /\ Cardinality(InFlight) <= 1
    /\ \A i \in InFlight : running = i

\* C3 witness: a cycle is in the middle of its steps and another update,
\* scheduled by a trigger, waits behind it
C3_Witness ==
    /\ Len(tasks) = 2
    /\ tasks[1].pc = "metadevices"
    /\ tasks[2].pc = "ingest"
    /\ running = 1

\* the source lists of the tracked metadevices
SourcesOf(m) == coord.devices[m].beacon_sources
TrackedMetadevices == coord.metadevices \cap DOMAIN coord.devices

\* C4: the beacon_sources of every metadevice, whether its sources are
\* inserted by register_ibeacon_source or by discover_private_ble_metadevices,
\* never has more than HIST_KEEP_COUNT entries.
C4_SourcesCapped ==
    \A m \in TrackedMetadevices : Len(SourcesOf(m)) <= HIST_KEEP_COUNT

\* no update is scheduled or running and the last one ended without raising
Idle == tasks = <<>> /\ running = 0 /\ coord.exc = None

\* C5: beacon_sources is ordered most-recent-first.  Between update cycles the
\* head of an iBeacon metadevice's list is a source whose latest advertisement
\* is at least as recent as that of every other listed source, also when that
\* source was already further down the list; the head of a Private BLE
\* metadevice's list is the current address its tracker entity last reported.
C5_HeadIsMostRecent ==
    Idle =>
      /\ \A m \in TrackedMetadevices \cap BeaconIds :
            \A i \in 2..Len(SourcesOf(m)) :
               ({SourcesOf(m)[1], SourcesOf(m)[i]} \subseteq DOMAIN coord.devices) =>
                  coord.devices[SourcesOf(m)[i]].last_seen
                     <= coord.devices[SourcesOf(m)[1]].last_seen
      /\ \A ent \in DOMAIN coord.pb_state_sources :
            (coord.pb_state_sources[ent] # None /\ PBIrk(ent) \in TrackedMetadevices
               /\ Len(SourcesOf(PBIrk(ent))) > 0) =>
                  SourcesOf(PBIrk(ent))[1] = Val(coord.pb_state_sources[ent])

\* the head source of metadevice m has a record in the device table of c
HasHeadSource(c, m) ==
    /\ Len(c.devices[m].beacon_sources) > 0
    /\ c.devices[m].beacon_sources[1] \in DOMAIN c.devices
\* that record
HeadSource(c, m) == c.devices[c.devices[m].beacon_sources[1]]

\* the step taken is a cycle's call of update_metadevices
UpdateMetadevicesCalled ==
    \E i \in 1..Len(tasks) :
       /\ tasks[i].pc = "metadevices"
       /\ Len(tasks') = Len(tasks)
       /\ tasks'[i].pc = "notify"

\* C6: a metadevice's last_seen never decreases; it changes only in
\* update_metadevices and only to the last_seen of its head source when that is
\* strictly greater than its own, and is left as it is when the head source's
\* stamp is equal, older or zero.
C6_LastSeenMonotone ==
    [][ \A m \in TrackedMetadevices :
          m \in DOMAIN coord'.devices =>
            /\ coord'.devices[m].last_seen >= coord.devices[m].last_seen
            /\ coord'.devices[m].last_seen # coord.devices[m].last_seen =>
                  /\ UpdateMetadevicesCalled
                  /\ HasHeadSource(coord', m)
                  /\ HeadSource(coord', m).last_seen > coord.devices[m].last_seen
                  /\ coord'.devices[m].last_seen = HeadSource(coord', m).last_seen ]_vars

\* C6 witness: update_metadevices has just run for a metadevice whose
\* last_seen was advanced earlier and whose head source now is one with an
\* older stamp that is not zero; the metadevice keeps the newer stamp
C6_Witness ==
    /\ Len(tasks) = 1 /\ tasks[1].pc = "notify"
    /\ \E m \in TrackedMetadevices :
          /\ HasHeadSource(coord, m)
          /\ 0 < HeadSource(coord, m).last_seen
          /\ HeadSource(coord, m).last_seen < coord.devices[m].last_seen

\* no cycle is between the end of its ingest and the end of its
\* update_metadevices: what the last update_metadevices wrote is in place
AfterUpdateMetadevices ==
    /\ coord.exc = None
    /\ \A i \in 1..Len(tasks) : tasks[i].pc \in {"ingest", "notify", "prune", "stamp"}

\* C7: after update_metadevices every metadevice with a head source in the
\* device table has the scanner contacts of that head source (it refers to
\* the same mapping) and the head source's area_id, area_name, area_distance,
\* area_rssi and area_scanner.
C7_InheritsFromHead ==
    AfterUpdateMetadevices =>
      \A m \in TrackedMetadevices :
         HasHeadSource(coord, m) =>
            /\ coord.devices[m].scanners_ref = HeadSource(coord, m).scanners_ref
            /\ ScannersOf(coord, m) = ScannersOf(coord, HeadSource(coord, m).address)
            /\ coord.devices[m].area_id = HeadSource(coord, m).area_id
            /\ coord.devices[m].area_name = HeadSource(coord, m).area_name
            /\ coord.devices[m].area_distance = HeadSource(coord, m).area_distance
            /\ coord.devices[m].area_rssi = HeadSource(coord, m).area_rssi
            /\ coord.devices[m].area_scanner = HeadSource(coord, m).area_scanner

\* C7 witness: update_metadevices has just run for a metadevice with two
\* sources in the device table that different scanners hear in different
\* areas; the metadevice is in the area of the head source
C7_Witness ==
    /\ Len(tasks) = 1 /\ tasks[1].pc = "notify"
    /\ \E m \in TrackedMetadevices :
          /\ HasHeadSource(coord, m)
          /\ Len(SourcesOf(m)) >= 2
          /\ SourcesOf(m)[2] \in DOMAIN coord.devices
          /\ HeadSource(coord, m).area_id # None
          /\ coord.devices[SourcesOf(m)[2]].area_id # None
          /\ coord.devices[SourcesOf(m)[2]].area_id # HeadSource(coord, m).area_id
          /\ ScannersOf(coord, SourcesOf(m)[2]) # ScannersOf(coord, SourcesOf(m)[1])
          /\ coord.devices[m].area_id = HeadSource(coord, m).area_id
          /\ Len(ScannersOf(coord, m)) > 0

\* C8: at the end of every update cycle a metadevice's position and name
\* attributes are those of its current head source: its trilaterated_position
\* is the head source's, and every name attribute the head source has (a
\* name taken from an advertisement, not the placeholder made from its
\* address) is the metadevice's too, also after the head has changed to
\* another device.
C8_FollowsHeadSource ==
    Idle =>
      \A m \in TrackedMetadevices :
         HasHeadSource(coord, m) =>
            /\ coord.devices[m].trilaterated_position
                  = HeadSource(coord, m).trilaterated_position
            /\ HeadSource(coord, m).name # None =>
                  coord.devices[m].name = HeadSource(coord, m).name
            /\ HeadSource(coord, m).local_name # None =>
                  coord.devices[m].local_name = HeadSource(coord, m).local_name
            /\ HeadSource(coord, m).manufacturer # None =>
                  coord.devices[m].manufacturer = HeadSource(coord, m).manufacturer
            /\ (/\ HeadSource(coord, m).prefname # None
                /\ ~IsDomainDefaultName(Val(HeadSource(coord, m).prefname))) =>
                  coord.devices[m].prefname = HeadSource(coord, m).prefname

\* the step taken is a cycle's call of prune_devices
PruneDevicesCalled ==
    \E i \in 1..Len(tasks) :
       /\ tasks[i].pc = "prune"
       /\ Len(tasks') = Len(tasks)
       /\ tasks'[i].pc = "stamp"
       /\ coord.stamp_last_prune # now
       /\ coord'.stamp_last_prune = now

\* a record that must not be removed: the head source of a tracked
\* metadevice, a device with its sensor, a scanner, a device never seen, a
\* device whose address is not a MAC address
Ineligible(a) ==
    \/ \E m \in TrackedMetadevices :
          Len(SourcesOf(m)) > 0 /\ SourcesOf(m)[1] = a
    \/ coord.devices[a].create_sensor
    \/ coord.devices[a].is_scanner
    \/ coord.devices[a].last_seen = 0
    \/ coord.devices[a].address_type = BDADDR_TYPE_NOT_MAC48

Aged == { a \in DOMAIN coord.devices :
            /\ coord.devices[a].last_seen > 0
            /\ coord.devices[a].last_seen < now - PRUNE_TIME_DEFAULT }

StalenessWindow(address_type) ==
    IF address_type = BDADDR_TYPE_PRIVATE_RESOLVABLE THEN PRUNE_TIME_IRK
    ELSE PRUNE_TIME_DEFAULT

\* the eligible records whose last_seen is older than their window
StaleEligible ==
    { a \in DOMAIN coord.devices :
        /\ ~Ineligible(a)
        /\ coord.devices[a].last_seen
              < now - StalenessWindow(coord.devices[a].address_type) }

\* C10: prune_devices removes every eligible record older than its staleness
\* window (PRUNE_TIME_IRK for private-resolvable addresses, PRUNE_TIME_DEFAULT
\* for the others) whatever the number of devices, and when no more than
\* PRUNE_MAX_COUNT records are left after that, it removes no other record.
C10_StaleRemoved ==
    [][ PruneDevicesCalled =>
          /\ StaleEligible \cap DOMAIN coord'.devices = {}
          /\ Cardinality(DOMAIN coord.devices) - Cardinality(StaleEligible)
                 <= PRUNE_MAX_COUNT =>
                DOMAIN coord.devices \ DOMAIN coord'.devices = StaleEligible ]_vars

\* C10 witness: prune_devices has just removed a private-resolvable and
\* another address and nothing else; no more than PRUNE_MAX_COUNT records are
\* left, among them an eligible one that is within its window
C10_Witness ==
    /\ Len(tasks) = 1 /\ tasks[1].pc = "stamp"
    /\ coord.stamp_last_prune = now
    /\ coord.prune_list \cap PrivateMacs # {}
    /\ coord.prune_list \cap StaticMacs # {}
    /\ Cardinality(DOMAIN coord.devices) <= PRUNE_MAX_COUNT
    /\ \E a \in DOMAIN coord.devices :
          /\ ~Ineligible(a)
          /\ coord.devices[a].last_seen
                >= now - StalenessWindow(coord.devices[a].address_type)

\* the eligible records within their staleness window
FreshEligible ==
    { a \in DOMAIN coord.devices : ~Ineligible(a) /\ a \notin StaleEligible }

\* C11 as stated: after the staleness removals prune_devices trims the
\* eligible records oldest first until the device count equals
\* PRUNE_MAX_COUNT, so that the device count is at most PRUNE_MAX_COUNT when
\* prune_devices returns.
C11_CountAtMostCap ==
    [][ PruneDevicesCalled =>
          Cardinality(DOMAIN coord'.devices) <= PRUNE_MAX_COUNT ]_vars

\* C11 amended: when more than PRUNE_MAX_COUNT records are left after the
\* staleness removals, prune_devices removes eligible records that are
\* within their window, none of them newer than an eligible record it keeps,
\* until PRUNE_MAX_COUNT records are left or no eligible record is left;
\* ineligible records alone can keep the count above PRUNE_MAX_COUNT.
C11_CapRule ==
    [][ PruneDevicesCalled =>
          LET Removed == DOMAIN coord.devices \ DOMAIN coord'.devices
              Trimmed == Removed \ StaleEligible
              Kept    == FreshEligible \cap DOMAIN coord'.devices
              Left    == Cardinality(DOMAIN coord.devices) - Cardinality(StaleEligible)
          IN /\ Trimmed \subseteq FreshEligible
             /\ \A r \in Trimmed : \A k \in Kept :
                   coord.devices[r].last_seen <= coord.devices[k].last_seen
             /\ IF Left > PRUNE_MAX_COUNT
                THEN \/ Cardinality(DOMAIN coord'.devices) = PRUNE_MAX_COUNT
                     \/ /\ Kept = {}
                        /\ Cardinality(DOMAIN coord'.devices) > PRUNE_MAX_COUNT
                ELSE Trimmed = {} ]_vars

\* C11 witness: prune_devices has just trimmed records to meet its quota;
\* exactly PRUNE_MAX_COUNT records are left, among them an eligible one
C11_Witness ==
    /\ Len(tasks) = 1 /\ tasks[1].pc = "stamp"
    /\ coord.stamp_last_prune = now
    /\ coord.prune_quota > 0
    /\ coord.prune_list # {}
    /\ Cardinality(DOMAIN coord.devices) = PRUNE_MAX_COUNT
    /\ \E a \in DOMAIN coord.devices : ~Ineligible(a)

\* C12: a device with is_scanner = true is never assigned a
\* trilaterated_position, whatever contacts with distances and known
\* positions it has: no step of the cycle gives a scanner a position it did
\* not have.
C12_ScannerNeverPositioned ==
    [][ \A a \in DOMAIN coord.devices :
          (/\ coord.devices[a].is_scanner
           /\ coord.devices[a].trilaterated_position = None
           /\ a \in DOMAIN coord'.devices)
          => coord'.devices[a].trilaterated_position = None ]_vars

\* the cycle runs _refresh_areas_by_min_distance in this step
RefreshAreasCalled ==
    \E i \in 1..Len(tasks) :
        /\ tasks[i].pc = "areas"
        /\ Len(tasks') = Len(tasks)
        /\ tasks'[i].pc = "scanners"

\* the contacts of device a (by index) with a distance below max_radius
Qualifying(a) ==
    { k \in 1..Len(ScannersOf(coord, a)) :
        /\ ScannersOf(coord, a)[k].rssi_distance # None
        /\ RLess(Val(ScannersOf(coord, a)[k].rssi_distance), coord.options.max_radius) }

\* the first contact, in iteration order, at the least qualifying distance
FirstNearest(a) ==
    CHOOSE k \in Qualifying(a) : \A j \in Qualifying(a) :
        \/ RLess(Val(ScannersOf(coord, a)[k].rssi_distance),
                 Val(ScannersOf(coord, a)[j].rssi_distance))
        \/ /\ ScannersOf(coord, a)[k].rssi_distance = ScannersOf(coord, a)[j].rssi_distance
           /\ k <= j

\* C13: area assignment of a device that is no scanner takes, among its
\* contacts with a distance strictly below max_radius, the one at the least
\* distance, the first in iteration order among several at that distance;
\* area_id, area_distance, area_rssi and area_scanner are then those of that
\* contact.
C13_NearestContactWins ==
    [][ RefreshAreasCalled =>
          \A a \in DOMAIN coord.devices :
            (~coord.devices[a].is_scanner /\ Qualifying(a) # {}) =>
              LET selected == ScannersOf(coord, a)[FirstNearest(a)]
                  device == coord'.devices[a]
              IN /\ device.area_id = selected.area_id
                 /\ device.area_distance = selected.rssi_distance
                 /\ device.area_rssi = selected.rssi
                 /\ device.area_scanner = selected.name ]_vars

\* C13 witness: the areas were refreshed for tag m1 with two contacts at the
\* same least distance, the first of them a proxy that sorts last; m1 has the
\* area fields of that first contact
C13_Witness ==
    /\ Len(tasks) = 1 /\ tasks[1].pc = "scanners"
    /\ "m1" \in DOMAIN coord.devices
    /\ LET contacts == ScannersOf(coord, "m1") IN
       /\ Len(contacts) = 3
       /\ contacts[1].scanner = "s4"
       /\ contacts[1].rssi_distance = Some(RInt(1))
       /\ contacts[3].rssi_distance = Some(RInt(1))
       /\ contacts[2].rssi_distance = Some(RInt(2))
       /\ coord.devices["m1"].area_scanner = contacts[1].name
       /\ coord.devices["m1"].area_rssi = contacts[1].rssi
       /\ coord.devices["m1"].area_distance = Some(RInt(1))
       /\ coord.devices["m1"].area_id = None

\* C14: when no contact of a device that is no scanner has a distance below
\* max_radius (no contact at all, no sample yet, or every distance at or
\* beyond max_radius), area assignment sets area_id, area_name,
\* area_distance, area_rssi and area_scanner to null, whatever they were.
C14_NoContactClearsArea ==
    [][ RefreshAreasCalled =>
          \A a \in DOMAIN coord.devices :
            (~coord.devices[a].is_scanner /\ Qualifying(a) = {}) =>
              LET device == coord'.devices[a]
              IN /\ device.area_id = None
                 /\ device.area_name = None
                 /\ device.area_distance = None
                 /\ device.area_rssi = None
                 /\ device.area_scanner = None ]_vars

\* C14 witness: tag m1, which had an area when the cycle began, has a
\* contact at max_radius and none below it; the areas were refreshed and
\* its area fields are null
C14_Witness ==
    /\ Len(tasks) = 1 /\ tasks[1].pc = "scanners"
    /\ coord.stamp_last_update = 1
    /\ "m1" \in DOMAIN coord.devices
    /\ LET contacts == ScannersOf(coord, "m1") IN
       /\ \E k \in 1..Len(contacts) : contacts[k].rssi_distance = Some(coord.options.max_radius)
       /\ \A k \in 1..Len(contacts) :
             contacts[k].rssi_distance # None =>
               ~RLess(Val(contacts[k].rssi_distance), coord.options.max_radius)
    /\ coord.devices["m1"].area_id = None
    /\ coord.devices["m1"].area_name = None
    /\ coord.devices["m1"].area_distance = None
    /\ coord.devices["m1"].area_rssi = None
    /\ coord.devices["m1"].area_scanner = None

\* trilaterate has returned null: it did not raise and its value is None
ReturnedNull == call.done /\ ~call.ret.raised /\ call.ret.value = None

\* the positions of the call lie on one line (two of them identical included)
Collinear(positions) ==
    \A i, j, k \in 1..Len(positions) :
        (positions[j][1] - positions[i][1]) * (positions[k][2] - positions[i][2])
          = (positions[k][1] - positions[i][1]) * (positions[j][2] - positions[i][2])

\* C15: trilaterate returns null, without raising, whenever it is given
\* fewer than 3 positions and distances (0, 1 or 2 of them).
C15_FewInputsReturnNull ==
    (call.done /\ Len(call.positions) < 3) => ReturnedNull

\* C16: trilaterate returns null, rather than a position or an exception, for
\* every degenerate set of 3 or more positions: all of them on one line, or
\* two or more of them identical.
C16_DegenerateReturnsNull ==
    (/\ call.done
     /\ Len(call.positions) >= 3
     /\ \/ Collinear(call.positions)
        \/ \E i, j \in 1..Len(call.positions) :
              i # j /\ call.positions[i] = call.positions[j])
    => ReturnedNull

\* C17: round trip of trilaterate: for every 3 positions not on one line and
\* every true point, the call with the exact Euclidean distances from that
\* point returns the point; scanners at (0,0), (10,0), (0,10) and the device
\* at (3,4) give (3,4).
C17_RoundTrip ==
    (/\ call.done
     /\ Len(call.positions) = 3
     /\ ~Collinear(call.positions))
    => /\ ~call.ret.raised
       /\ call.ret.value = Some(<<RInt(call.point[1]), RInt(call.point[2])>>)

\* the links update_path_loss_factor was called for up to the last call
UpdatedLinks ==
    IF call.fn = "update_path_loss_factor"
    THEN call.updated \cup {call.path_key} ELSE call.updated

\* C18: the path-loss factor of a link read before any update of it is 2.0;
\* one update_path_loss_factor(measured_loss) replaces the factor old of its
\* link (2.0 for a link without one) by exactly 0.9 * old + 0.1 *
\* measured_loss and leaves the factors of all other links as they were.
C18_FactorSmoothing ==
    [][ /\ (call'.fn = "calculate_path_loss_factor"
            /\ call'.path_key \notin UpdatedLinks)
           => call'.ret = RInt(2)
        /\ call'.fn = "update_path_loss_factor"
           => LET old == IF call'.path_key \in DOMAIN coord.path_loss_factors
                         THEN coord.path_loss_factors[call'.path_key]
                         ELSE RInt(2)
              IN /\ coord'.path_loss_factors[call'.path_key] =
                      RAdd(RMul(Rat(9, 10), old), RMul(Rat(1, 10), call'.measured_loss))
                 /\ \A k \in DOMAIN coord.path_loss_factors \ {call'.path_key} :
                       /\ k \in DOMAIN coord'.path_loss_factors
                       /\ coord'.path_loss_factors[k] = coord.path_loss_factors[k]
                 /\ DOMAIN coord'.path_loss_factors =
                      DOMAIN coord.path_loss_factors \cup {call'.path_key} ]_vars

\* C18 witness: the link m1-s1 was updated with the loss 5/2 and then again
\* with the loss 1: its factor is 0.9 * (0.9 * 2 + 0.1 * 5/2) + 0.1 * 1
C18_Witness ==
    /\ call.fn = "update_path_loss_factor"
    /\ call.path_key = PathKey("m1", "s1")
    /\ call.measured_loss = RInt(1)
    /\ call.updated = {PathKey("m1", "s1")}
    /\ coord.path_loss_factors[PathKey("m1", "s1")] = Rat(1945, 1000)

\* C19: with no fixed beacon configured (fixed_beacons is empty), every entry
\* of path_loss_factors holds the default 2.0 after any sequence of update
\* cycles and advertisements.
C19_FactorsStayDefault ==
    Len(coord.fixed_beacons) = 0 =>
        \A k \in DOMAIN coord.path_loss_factors : coord.path_loss_factors[k] = RInt(2)

\* C19 witness: time has passed and an update cycle has ended after it, no
\* fixed beacon is configured, and three links or more have a factor
C19_Witness ==
    /\ Len(tasks) = 0
    /\ coord.stamp_last_update > StartTime
    /\ Len(coord.fixed_beacons) = 0
    /\ Cardinality(DOMAIN coord.path_loss_factors) >= 3

\* the reference power in effect in calculate_distance_from_rssi (txPower)
ReferencePower == -59

\* C20: for every input whose rssi equals the reference power in effect the
\* RSSI-to-distance computation returns exactly 1.0.
C20_OneMetreAtReferencePower ==
    (call.fn = "calculate_distance_from_rssi" /\ call.rssi = ReferencePower)
        => call.ret = RInt(1)

\* C20 witness: calculate_distance_from_rssi was called with the reference
\* power, after a call with another rssi, and returned 1
C20_Witness ==
    /\ call.fn = "calculate_distance_from_rssi"
    /\ call.rssi = ReferencePower
    /\ call.count = 2
    /\ call.ret = RInt(1)

\* C21: the RSSI-to-distance computation honours the installation's
\* calibration: it returns 10 ^ ((reference_power - rssi) / (10 * exponent))
\* for the configured reference power and attenuation exponent, not the
\* value of a built-in constant.
C21_HonoursCalibration ==
    call.fn = "calculate_distance_from_rssi"
        => call.ret = rssi_to_metres(call.rssi, coord.options.ref_power,
                                     coord.options.attenuation)

\* C22: with an obstruction map of zero entries a distance adjustment either
\* fails with the dedicated NoObstructionDataError or leaves the contact's
\* distance as it was; the nearest-point lookup never raises a generic
\* exception that nothing handles.
C22_EmptyMapHandled ==
    Len(coord.obstruction_map) = 0 => coord.exc # Some("ValueError")

\* the place the stated order gives each step of the cycle: the dispatch of
\* SIGNAL_DEVICE_NEW follows the metadevice refresh, the stamp follows pruning
StatedPlace(pc) ==
    CASE pc = "ingest"      -> 1
      [] pc = "configured"  -> 2
      [] pc = "derive"      -> 3
      [] pc = "areas"       -> 4
      [] pc = "scanners"    -> 5
      [] pc = "metadevices" -> 6
      [] pc = "notify"      -> 6
      [] pc = "prune"       -> 7
      [] pc = "stamp"       -> 7

\* C23: a cycle runs ingest, placeholders for configured devices, derived
\* data with multilateration and fine-tuning, area assignment, the scanner
\* roster refresh, the metadevice refresh and pruning in this order: a cycle
\* begins at the ingest, each of its steps leads to the same or the next
\* place of the order, and between its ingest and its last step nothing but
\* the cycle itself runs, so the area assignment reads what its ingest wrote.
C23_StepsInOrder ==
    [][ /\ \A i \in 1..Len(tasks') :
              i > Len(tasks) => tasks'[i].pc = "ingest"
        /\ \A i \in 1..Len(tasks) :
              (Len(tasks') = Len(tasks) /\ tasks'[i].pc # tasks[i].pc) =>
                 /\ StatedPlace(tasks'[i].pc) - StatedPlace(tasks[i].pc) \in {0, 1}
                 /\ running \in {0, i}
                 /\ running' = i
                 /\ tasks[i].pc # "ingest" => running = i
        /\ running # 0 =>
              /\ running \in 1..Len(tasks)
              /\ tasks[running].pc # "ingest"
              /\ <<now, adverts, pb_state>>' = <<now, adverts, pb_state>> ]_vars

\* a cycle past its pruning step that assigned an area from a distance its
\* ingest wrote
C23_Witness ==
    /\ running # 0
    /\ tasks[running].pc = "stamp"
    /\ \E a \in DOMAIN coord.devices :
          /\ coord.devices[a].area_id # None
          /\ Len(ScannersOf(coord, a)) > 0

\* the step taken is the last of a cycle that ran to its end
CycleCompleted ==
    \E i \in 1..Len(tasks) :
        /\ tasks[i].pc = "stamp"
        /\ running = i
        /\ Len(tasks') < Len(tasks)
        /\ ~Raised(coord')

PruneStepTaken ==
    \E i \in 1..Len(tasks) :
        /\ tasks[i].pc = "prune"
        /\ running = i
        /\ Len(tasks') = Len(tasks)
        /\ tasks'[i].pc = "stamp"

\* C25: a cycle runs prune_devices exactly when more than PRUNE_TIME_INTERVAL
\* has elapsed since stamp_last_prune and then sets stamp_last_prune to the
\* current time; otherwise its pruning step changes nothing.  stamp_last_prune
\* changes in no other step, so two prune runs are more than
\* PRUNE_TIME_INTERVAL apart.
C25_PruneWhenDue ==
    [][ /\ PruneStepTaken =>
              IF now - coord.stamp_last_prune > PRUNE_TIME_INTERVAL
              THEN /\ coord'.devices = Drop(coord.devices, PruneList(coord, now))
                   /\ coord'.prune_list = PruneList(coord, now)
                   /\ coord'.stamp_last_prune = now
              ELSE coord' = coord
        /\ coord'.stamp_last_prune # coord.stamp_last_prune =>
              /\ PruneStepTaken
              /\ coord'.stamp_last_prune - coord.stamp_last_prune > PRUNE_TIME_INTERVAL
      ]_vars

\* a cycle that left pruning out, PRUNE_TIME_INTERVAL after an earlier cycle
\* ran it
C25_Witness ==
    /\ running # 0
    /\ tasks[running].pc = "stamp"
    /\ coord.stamp_last_prune = StartTime
    /\ now = coord.stamp_last_prune + PRUNE_TIME_INTERVAL

\* what the solver does when it is called for device a
SolverCall(a) ==
    LET used == TrilaterationInputs(coord, a)
    IN trilaterate([i \in 1..Len(used) |-> Val(coord.devices[used[i].scanner].position)],
                   [i \in 1..Len(used) |-> Distance(Val(used[i].rssi_distance))],
                   coord.options.position_kind)

\* perform_trilateration calls the solver for device a
SolverCalled(a) ==
    /\ coord.options.enable_trilateration
    /\ Len(TrilaterationInputs(coord, a)) >= 3

\* the cycle's loop over the devices (lines 475-478) runs in this step
DeriveStepTaken ==
    \E i \in 1..Len(tasks) :
        /\ tasks[i].pc = "derive"
        /\ running = i
        /\ tasks' # tasks

\* C26: a failure of trilateration never ends the cycle: when the solver
\* raises for a device, the exception does not leave perform_trilateration,
\* the loop goes on to the remaining devices and the cycle to its remaining
\* steps; the next cycle calls the solver again.
C26_SolverFailureContained ==
    [][ (DeriveStepTaken /\ \E a \in DOMAIN coord.devices :
                                SolverCalled(a) /\ SolverCall(a).raised) =>
          /\ ~Raised(coord')
          /\ Len(tasks') = Len(tasks)
          /\ tasks'[running].pc = "areas"
          /\ running' = running
          /\ \A a \in DOMAIN coord.devices :
                (SolverCalled(a) /\ ~SolverCall(a).raised) =>
                    coord'.devices[a].trilaterated_position = SolverCall(a).value ]_vars

\* a cycle after the first completed one that is past its loop over the
\* devices although the solver raised again for one of them
C26_Witness ==
    /\ coord.stamp_last_update # 0
    /\ running # 0
    /\ tasks[running].pc = "areas"
    /\ ~Raised(coord)
    /\ \E a \in DOMAIN coord.devices :
          /\ SolverCalled(a)
          /\ SolverCall(a).raised
          /\ coord.devices[a].trilaterated_position = None

\* C27: perform_trilateration calls the solver and writes
\* trilaterated_position only when trilateration is enabled and the device has
\* at least three contacts with a distance whose scanner has a record with a
\* known position; in every other case, and in every other step of the
\* program, trilaterated_position stays as it was.
C27_SolverGuards ==
    [][ \A a \in DOMAIN coord.devices \cap DOMAIN coord'.devices :
          /\ coord'.devices[a].trilaterated_position # coord.devices[a].trilaterated_position
                => DeriveStepTaken /\ SolverCalled(a)
          /\ (DeriveStepTaken /\ SolverCalled(a) /\ ~SolverCall(a).raised)
                => coord'.devices[a].trilaterated_position = SolverCall(a).value ]_vars

\* after the loop over the devices one device with three usable contacts has
\* a position and one with fewer, but some, has none
C27_Witness ==
    /\ running # 0
    /\ tasks[running].pc = "areas"
    /\ \E a, b \in DOMAIN coord.devices :
          /\ SolverCalled(a)
          /\ coord.devices[a].trilaterated_position = SolverCall(a).value
          /\ coord.devices[a].trilaterated_position # None
          /\ Len(TrilaterationInputs(coord, b)) \in {1, 2}
          /\ coord.devices[b].trilaterated_position = None

\* with trilateration switched off a device with three usable contacts is
\* left without a position
C27_WitnessDisabled ==
    /\ running # 0
    /\ tasks[running].pc = "areas"
    /\ ~coord.options.enable_trilateration
    /\ \E a \in DOMAIN coord.devices :
          /\ Len(TrilaterationInputs(coord, a)) >= 3
          /\ coord.devices[a].trilaterated_position = None

\* the factor of the link after one smoothing step with the loss measured on
\* a beacon: its signal strength rssi at the scanner, its position bp, the
\* scanner's position sp
TunedByBeacon(key, rssi, bp, sp) ==
    LET d2 == (bp[1] - sp[1]) * (bp[1] - sp[1]) + (bp[2] - sp[2]) * (bp[2] - sp[2])
    IN PathLossFactor(
          update_path_loss_factor(coord, key,
              RInt(Log10Quotient(calculate_distance_from_rssi(rssi), d2))),
          key)

\* C28: fine tuning measures a loss only on a fixed beacon in range of the
\* scanner: the estimated distance comes from the signal strength of the
\* fixed beacon at that scanner, the actual distance is the geometric one
\* between beacon and scanner; a device that is no fixed beacon never
\* contributes its own signal strength.  So a factor that the device loop
\* changes is the smoothing of the old one with a loss measured on a fixed
\* beacon that the link's scanner hears.
C28_LossFromFixedBeacon ==
    [][ DeriveStepTaken =>
          \A key \in DOMAIN coord'.path_loss_factors :
            PathLossFactor(coord', key) # PathLossFactor(coord, key) =>
              \E i \in 1..Len(coord.fixed_beacons) :
                LET b == coord.fixed_beacons[i] IN
                /\ b \in DOMAIN coord.devices
                /\ coord.devices[b].position # None
                /\ \E k \in 1..Len(ScannersOf(coord, b)) :
                      LET contact == ScannersOf(coord, b)[k] IN
                      /\ contact.scanner = key[2]
                      /\ contact.rssi # None
                      /\ PathLossFactor(coord', key) =
                            TunedByBeacon(key, Val(contact.rssi),
                                          Val(coord.devices[b].position),
                                          Val(coord.devices[key[2]].position)) ]_vars

\* the cycle's ingest ran in this step and raised nothing
IngestStepTaken ==
    \E i \in 1..Len(tasks) :
        /\ tasks[i].pc = "ingest"
        /\ tasks' # tasks
        /\ ~Raised(coord')

\* the distance the contact of device a with scanner s should carry after
\* the adjustment: the distance derived from the signal strength rssi, to the
\* power of the link's factor (a whole number), halved for every wall
AdjustedRawDistance(a, s, rssi) ==
    LET raw_distance == rssi_to_metres(rssi + RssiOffset(coord, s),
                                       coord.options.ref_power, coord.options.attenuation)
        path_loss_factor == PathLossFactor(coord, PathKey(a, s))
        wall_crossings == count_wall_crossings(coord.obstruction_map,
                                               Val(coord'.devices[a].position),
                                               Val(coord'.devices[s].position))
    IN RMul(RPowInt(raw_distance, path_loss_factor.n),
            RPowInt(Rat(1, 2), wall_crossings))

\* C29: apply_path_loss_factor writes onto the contact of device and scanner
\* raw_distance ^ path_loss_factor * 0.5 ^ wall_crossings, where raw_distance
\* is the distance of the contact derived from its signal strength.
C29_RawDistanceAdjusted ==
    [][ IngestStepTaken =>
          \A a \in DOMAIN adverts :
            \A j \in 1..Len(adverts[a].scanners) :
              LET heard == adverts[a].scanners[j]
                  contacts == ScannersOf(coord', a)
              IN \A k \in 1..Len(contacts) :
                    contacts[k].scanner = heard.source =>
                       contacts[k].rssi_distance =
                          Some(AdjustedRawDistance(a, heard.source, heard.rssi)) ]_vars

\* C30: on a map that is not empty get_field_strength_estimate returns, for
\* every query point, the value stored at a key whose Euclidean distance
\* from the point is minimal; when the point is itself a key, the value of
\* that key.
C30_NearestKeyValue ==
    call.fn = "get_field_strength_estimate" =>
        LET map == coord.obstruction_map IN
        /\ \E i \in 1..Len(map) :
              /\ call.ret = map[i].v
              /\ \A j \in 1..Len(map) :
                    SampleDist2(map[i], call.qx2, call.qy2)
                       <= SampleDist2(map[j], call.qx2, call.qy2)
        /\ \A i \in 1..Len(map) :
              (2 * map[i].x = call.qx2 /\ 2 * map[i].y = call.qy2) => call.ret = map[i].v

\* a query between the grid points of a map of three samples whose nearest
\* sample is the last
C30_Witness ==
    /\ call.fn = "get_field_strength_estimate"
    /\ Len(coord.obstruction_map) = 3
    /\ call.qx2 % 2 = 1
    /\ call.ret = coord.obstruction_map[3].v

\* a query on a key of the map
C30_WitnessKey ==
    /\ call.fn = "get_field_strength_estimate"
    /\ Len(coord.obstruction_map) = 3
    /\ 2 * coord.obstruction_map[2].x = call.qx2
    /\ 2 * coord.obstruction_map[2].y = call.qy2
    /\ call.ret = coord.obstruction_map[2].v

\* the observations the advertisement cache holds: <<address, observation>>
Observations ==
    UNION { { <<a, adverts[a].scanners[j]>> : j \in 1..Len(adverts[a].scanners) } :
              a \in DOMAIN adverts }

\* the contacts device a has with scanner source in coordinator c
ContactsWith(c, a, source) ==
    IF a \in DOMAIN c.devices
    THEN { k \in 1..Len(ScannersOf(c, a)) : ScannersOf(c, a)[k].scanner = source }
    ELSE {}

\* C31: during ingest an observation from a scanner that has no record in
\* the device table triggers a scanner roster refresh; when the scanner has
\* no record after it either, the observation is dropped: the device gets no
\* contact with that scanner, no distance adjustment is applied for it, and
\* the observations of the device from other scanners are processed.
C31_UnknownScannerDropped ==
    [][ IngestStepTaken =>
          /\ (\E o \in Observations : o[2].source \notin DOMAIN coord.devices) =>
                /\ ~coord'.do_full_scanner_init
                /\ coord'.do_private_device_init
          /\ \A o \in Observations :
                IF o[2].source \notin DOMAIN coord'.devices
                THEN /\ ContactsWith(coord', o[1], o[2].source) = {}
                     /\ PathKey(o[1], o[2].source) \notin DOMAIN coord'.path_loss_factors
                ELSE \E k \in ContactsWith(coord', o[1], o[2].source) :
                        /\ ScannersOf(coord', o[1])[k].rssi = Some(o[2].rssi)
                        /\ ScannersOf(coord', o[1])[k].stamp = Some(o[2].time) ]_vars

\* after an ingest the tag heard by the unknown scanner x1 and by s1 has its
\* contact with s1 and none with x1, which has no record
C31_Witness ==
    /\ running # 0
    /\ tasks[running].pc = "configured"
    /\ \E o \in Observations :
          /\ o[2].source = "x1"
          /\ "x1" \notin DOMAIN coord.devices
          /\ ContactsWith(coord, o[1], "x1") = {}
          /\ ContactsWith(coord, o[1], "s1") # {}

\* the cycle's ingest ran in this step, to its end or to an exception
IngestRan ==
    \E i \in 1..Len(tasks) :
        /\ tasks[i].pc = "ingest"
        /\ tasks' # tasks

\* the payloads of an advertisement that carry Apple's company code and
\* start with the bytes 0x02 0x15
IBeaconPayloads(info) ==
    { ManData(info.manufacturer_data[k].man_data) :
        k \in { j \in 1..Len(info.manufacturer_data) :
                  /\ info.manufacturer_data[j].company_code = 76
                  /\ Slice(ManData(info.manufacturer_data[j].man_data), 0, 2) = <<2, 21>> } }

\* C32: manufacturer data is recognised as an iBeacon exactly when its
\* company code is 0x004C and its payload starts with 0x02 0x15; for every
\* such payload the device's uuid is bytes [2:18], its major and minor the
\* big-endian values of bytes [18:20] and [20:22], its power the signed byte
\* [22], and the device is a source of the metadevice uuid_major_minor.
C32_IBeaconRecognised ==
    [][ IngestRan =>
          \A a \in DOMAIN adverts :
            /\ \A payload \in IBeaconPayloads(adverts[a]) :
                  /\ a \in DOMAIN coord'.devices
                  /\ BEACON_IBEACON_SOURCE \in coord'.devices[a].beacon_type
                  /\ coord'.devices[a].beacon_uuid = Some(Slice(payload, 2, 18))
                  /\ coord'.devices[a].beacon_major
                        = Some(FromBytesBig(Slice(payload, 18, 20)))
                  /\ coord'.devices[a].beacon_minor
                        = Some(FromBytesBig(Slice(payload, 20, 22)))
                  /\ Len(payload) >= 23
                  /\ coord'.devices[a].beacon_power = Some(SignedByte(payload[23]))
                  /\ LET m == BeaconUniqueId(Slice(payload, 2, 18),
                                             FromBytesBig(Slice(payload, 18, 20)),
                                             FromBytesBig(Slice(payload, 20, 22)))
                     IN /\ m \in coord'.metadevices
                        /\ InList(coord'.devices[m].beacon_sources, a)
            /\ (IBeaconPayloads(adverts[a]) = {} /\ a \in DOMAIN coord'.devices) =>
                  /\ a \in DOMAIN coord.devices =>
                        coord'.devices[a].beacon_type = coord.devices[a].beacon_type
                  /\ a \notin DOMAIN coord.devices =>
                        BEACON_IBEACON_SOURCE \notin coord'.devices[a].beacon_type ]_vars

NotifyStepTaken ==
    \E i \in 1..Len(tasks) :
        /\ tasks[i].pc = "notify"
        /\ running = i
        /\ tasks' # tasks

\* sensor_created and device_tracker_created have both been reported for a
BothReported(a) ==
    coord.devices[a].create_sensor_done /\ coord.devices[a].create_tracker_done

\* C34: for every device with create_sensor set a cycle sends the new-device
\* notification keyed by its address as long as sensor_created or
\* device_tracker_created has not been reported for the address, and sends
\* none in a cycle after both have been reported; the notifications change
\* in no other step.
C34_NotifiedUntilReported ==
    [][ /\ NotifyStepTaken =>
              \A a \in DOMAIN coord.devices :
                 a \in coord'.signals <=>
                    (coord.devices[a].create_sensor /\ ~BothReported(a))
        /\ coord'.signals # coord.signals => NotifyStepTaken
        /\ \A a \in DOMAIN coord.devices \cap DOMAIN coord'.devices :
              BothReported(a) => BothReported(a)' ]_vars

\* a cycle that sent no notification for the Private BLE device k1, after a
\* cycle that sent one and after both platforms reported back
C34_Witness ==
    /\ running # 0
    /\ tasks[running].pc = "prune"
    /\ coord.stamp_last_update # 0
    /\ "k1" \in DOMAIN coord.devices
    /\ coord.devices["k1"].create_sensor
    /\ BothReported("k1")
    /\ coord.signals = {}

\* a cycle that sent the notification again while only the sensor had been
\* reported
C34_WitnessPending ==
    /\ running # 0
    /\ tasks[running].pc = "prune"
    /\ coord.stamp_last_update # 0
    /\ "k1" \in coord.signals
    /\ coord.devices["k1"].create_sensor_done
    /\ ~coord.devices["k1"].create_tracker_done

(***************************************************************************)
(* SpecRoster: the pending flags on the surveyed installation: registry    *)
(* events, a Private BLE device that takes the address r1, and r1 heard by *)
(* the scanner s1, which has no record until its first advertisement       *)
(***************************************************************************)
RosterAdvert ==
    [address |-> "r1", info |-> NoInfo,
     heard_by |-> <<[source |-> "s1", rssi |-> -59]>>]

NextRoster ==
    \/ AdvertArrives(RosterAdvert, 1)
    \/ handle_devreg_changes(1)
    \/ handle_state_changes("pb1", "r1", 1)
    \/ periodic_refresh(1)
    \/ Tick(MaxTime)
    \/ Ingest
    \/ Configured
    \/ Derive
    \/ Areas
    \/ RefreshScanners
    \/ UpdateMetadevices
    \/ Notify
    \/ Prune
    \/ Stamp

SpecRoster == InitSched /\ [][NextRoster]_vars

\* the cycle's scanner refresh (lines 482-484) runs in this step
ScannersStepTaken ==
    \E i \in 1..Len(tasks) :
        /\ tasks[i].pc = "scanners" /\ running = i /\ tasks' # tasks

\* the cycle's update_metadevices (line 486) runs in this step
MetadevicesStepTaken ==
    \E i \in 1..Len(tasks) :
        /\ tasks[i].pc = "metadevices" /\ running = i /\ tasks' # tasks

\* the roster is as a full refresh leaves it: every scanner of the list that
\* the registry knows has its record with the registry's name
RosterRefreshed ==
    \A a \in coord.scanner_list \cap DOMAIN DeviceRegistry :
        /\ a \in DOMAIN coord'.devices
        /\ coord'.devices[a].is_scanner
        /\ coord'.devices[a].name = DeviceRegistry[a].name
        /\ a \in coord'.scanner_list

\* the Private BLE devices are as a rediscovery leaves them: every tracker
\* entity has its metadevice with create_sensor, its entry in
\* pb_state_sources, and its current address at the head of the sources
PrivateRediscovered ==
    \A i \in 1..Len(PBEntities) :
        LET ent == PBEntities[i]
            m   == format_mac_lower(PBIrk(ent))
        IN /\ m \in coord'.metadevices
           /\ m \in DOMAIN coord'.devices
           /\ coord'.devices[m].create_sensor
           /\ ent \in DOMAIN coord'.pb_state_sources
           /\ pb_state[ent] # None =>
                 /\ coord'.pb_state_sources[ent] = Some(format_mac_lower(Val(pb_state[ent])))
                 /\ coord'.devices[m].beacon_sources[1] = format_mac_lower(Val(pb_state[ent]))

\* C35: after a device-registry event the flags _do_full_scanner_init and
\* _do_private_device_init are pending; a cycle performs the full roster
\* refresh and the Private BLE rediscovery exactly when the flag is pending
\* and clears it, so a completed cycle leaves neither pending and later
\* cycles perform neither, until a registry event, a Private BLE address
\* change or an unknown scanner sets a flag again.
C35_PendingFlagsConsumed ==
    [][ /\ ScannersStepTaken =>
              IF coord.do_full_scanner_init
              THEN ~coord'.do_full_scanner_init /\ RosterRefreshed
              ELSE coord' = coord
        /\ MetadevicesStepTaken =>
              IF coord.do_private_device_init
              THEN ~coord'.do_private_device_init /\ PrivateRediscovered
              ELSE /\ coord'.pb_state_sources = coord.pb_state_sources
                   /\ coord'.metadevices = coord.metadevices
                   /\ DOMAIN coord'.devices = DOMAIN coord.devices
                   /\ \A m \in coord.metadevices :
                         coord'.devices[m].beacon_sources = coord.devices[m].beacon_sources
        /\ CycleCompleted =>
              ~coord'.do_full_scanner_init /\ ~coord'.do_private_device_init
        /\ (\/ ~coord.do_full_scanner_init /\ coord'.do_full_scanner_init
            \/ ~coord.do_private_device_init /\ coord'.do_private_device_init) =>
              \/ \E i \in 1..Len(tasks') : i > Len(tasks) /\ tasks'[i].origin = "devreg"
              \/ pb_state' # pb_state /\ coord'.do_full_scanner_init = coord.do_full_scanner_init
              \/ /\ IngestRan
                 /\ \E o \in Observations : o[2].source \notin DOMAIN coord.devices
      ]_vars

\* a cycle started by a registry event, after an earlier completed cycle, is
\* at its last step with both flags consumed and the Private BLE device
\* rediscovered
C35_Witness ==
    /\ running # 0
    /\ tasks[running].pc = "stamp"
    /\ tasks[running].origin = "devreg"
    /\ coord.stamp_last_update # 0
    /\ ~coord.do_full_scanner_init
    /\ ~coord.do_private_device_init
    /\ "k1" \in coord.metadevices
    /\ "s1" \in coord.scanner_list

====
